---------------------------- MODULE Spec2Model ----------------------------
(***************************************************************************)
(* KidsChores rules engine (custom_components/kidschores/coordinator.py):  *)
(* the chore lifecycle, the points ledger, the recurrence scheduler and    *)
(* the cumulative-badge ladder, as one state machine over the              *)
(* coordinator's _data sections.                                           *)
(*                                                                         *)
(* Every handler is a function from a snapshot d of the data (a record of  *)
(* the sections) to the snapshot it leaves behind; an action applies one   *)
(* handler to the current snapshot and commits the result.  A raised       *)
(* HomeAssistantError is the field err of the snapshot.                    *)
(***************************************************************************)
EXTENDS Integers, Sequences, FiniteSets, TLC

(***************************************************************************)
(* Bounds of the model                                                     *)
(***************************************************************************)
\* instants per calendar day; instant t lies on day t \div TicksPerDay and
\* the instants divisible by TicksPerDay are the midnights (00:00:00)
TicksPerDay == 2
\* the clock advances at most this many instants past the initial one
MaxElapsed == 2
\* a kid is approved at most this many times (completed_chores_total)
MaxApprovals == 2
\* the pending-approval queues hold at most this many entries
MaxPending == 2
\* balances stay within 0 .. MaxPoints
MaxPoints == 4
\* a due date is rescheduled by hand only while it lies at most this many
\* days ahead of now
MaxAhead == 1
\* iterations granted to the date-advancing loop of _reschedule_next_due_date
MaxLoop == 40
\* service calls made in a run
MaxCalls == 3
\* service calls made in a run of the points ledger
MaxPointCalls == 4
\* days a run of the points ledger lasts
MaxPointDays == 2

(***************************************************************************)
(* Program constants (const.py)                                            *)
(***************************************************************************)
DEFAULT_ZERO == 0
DEFAULT_ACHIEVEMENT_REWARD_POINTS == 0
DEFAULT_ACHIEVEMENT_TARGET == 1
DEFAULT_KID_POINTS_MULTIPLIER == 1
DEFAULT_WEEKLY_RESET_DAY == 0
DEFAULT_MONTHLY_RESET_DAY == 1
DEFAULT_NOTIFY_DELAY_REMINDER == 24
DEFAULT_BADGE_RESET_GRACE_PERIOD == 0
DEFAULT_YEAR_END_MONTH == 12
DEFAULT_POINTS_MULTIPLIER == 1
DEFAULT_YEAR_END_DAY == 31

\* None (a missing date, id or number)
None == 0 - 1

Max2(a, b) == IF a >= b THEN a ELSE b
Min2(a, b) == IF a <= b THEN a ELSE b

(***************************************************************************)
(* Calendar.  Day 0 is Monday 2024-01-01 (the epoch year is 2024);         *)
(* python's date.weekday() is 0 for Monday.  calendar.monthrange gives the *)
(* month lengths.                                                          *)
(***************************************************************************)
IsLeap(y) == (y % 4 = 0 /\ y % 100 # 0) \/ y % 400 = 0

monthrange(y, m) ==
    IF m = 2 THEN (IF IsLeap(y) THEN 29 ELSE 28)
    ELSE IF m \in {4, 6, 9, 11} THEN 30 ELSE 31

DaysInYear(y) == IF IsLeap(y) THEN 366 ELSE 365

RECURSIVE DaysBeforeYear(_)
DaysBeforeYear(y) ==
    IF y <= 2024 THEN 0 ELSE DaysBeforeYear(y - 1) + DaysInYear(y - 1)

RECURSIVE DaysBeforeMonth(_, _)
DaysBeforeMonth(y, m) ==
    IF m <= 1 THEN 0 ELSE DaysBeforeMonth(y, m - 1) + monthrange(y, m - 1)

\* the day number of the date y-m-d
DayOf(y, m, d) == DaysBeforeYear(y) + DaysBeforeMonth(y, m) + (d - 1)

RECURSIVE YmdFrom(_, _, _)
YmdFrom(y, m, n) ==
    IF n >= DaysInYear(y) /\ m = 1 THEN YmdFrom(y + 1, 1, n - DaysInYear(y))
    ELSE IF n >= monthrange(y, m) THEN YmdFrom(y, m + 1, n - monthrange(y, m))
    ELSE [year |-> y, month |-> m, day |-> n + 1]

\* the date (year, month, day) of day number n
Ymd(n) == YmdFrom(2024, 1, n)

\* datetime.date() and datetime.weekday() of an instant, and its time of day
DateOf(t) == t \div TicksPerDay
TimeOfDay(t) == t % TicksPerDay
weekday(t) == DateOf(t) % 7
IsMidnight(t) == TimeOfDay(t) = 0

(***************************************************************************)
(* Identifiers and enumerations                                            *)
(***************************************************************************)
KidIds == {"k1", "k2"}
ChoreIds == {"c1", "c2"}
BadgeIds == {"b1", "b2", "b3"}
RewardIds == {"r1"}
AchievementIds == {"a1", "a2"}
ChallengeIds == {"x1"}

\* the order python iterates the dicts in (insertion order)
KidOrder == <<"k1", "k2">>
ChoreOrder == <<"c1", "c2">>
BadgeOrder == <<"b1", "b2", "b3">>
AchievementOrder == <<"a1", "a2">>
ChallengeOrder == <<"x1">>

\* a missing id (the key is absent, or None)
NoId == ""
\* a stored due-date string that parse_datetime and fromisoformat reject
Unparsable == 0 - 2

BADGE_TYPE_CUMULATIVE == "cumulative"
BADGE_TYPE_DAILY == "daily"
ACHIEVEMENT_TYPE_DAILY_MIN == "daily_minimum"
ACHIEVEMENT_TYPE_STREAK == "chore_streak"
ACHIEVEMENT_TYPE_TOTAL == "chore_total"
CHALLENGE_TYPE_DAILY_MIN == "daily_minimum"
CHALLENGE_TYPE_TOTAL_WITHIN_WINDOW == "total_within_window"
CONF_YEAR_END == "year_end"
CONF_QUARTER == "quarter"
CONF_MONTHLY == "monthly"
CONF_CUSTOM == "custom"

CHORE_STATE_PENDING == "pending"
CHORE_STATE_CLAIMED == "claimed"
CHORE_STATE_APPROVED == "approved"
CHORE_STATE_OVERDUE == "overdue"
CHORE_STATE_APPROVED_IN_PART == "approved_in_part"
CHORE_STATE_CLAIMED_IN_PART == "claimed_in_part"
CHORE_STATE_INDEPENDENT == "independent"
CHORE_STATE_UNKNOWN == "unknown"

ChoreStates ==
    { CHORE_STATE_PENDING, CHORE_STATE_CLAIMED, CHORE_STATE_APPROVED,
      CHORE_STATE_OVERDUE, CHORE_STATE_APPROVED_IN_PART,
      CHORE_STATE_CLAIMED_IN_PART, CHORE_STATE_INDEPENDENT,
      CHORE_STATE_UNKNOWN }

FREQUENCY_NONE == "none"
FREQUENCY_DAILY == "daily"
FREQUENCY_WEEKLY == "weekly"
FREQUENCY_BIWEEKLY == "biweekly"
FREQUENCY_MONTHLY == "monthly"
FREQUENCY_CUSTOM == "custom"

CONF_DAYS == "days"
CONF_WEEKS == "weeks"
CONF_MONTHS == "months"
CONF_EMPTY == ""
DEFAULT_BADGE_AWARD_MODE == "points"
DATA_BADGE_AWARD_POINTS == "award_points"
DATA_BADGE_AWARD_REWARD == "award_reward"
DATA_BADGE_AWARD_POINTS_REWARD == "award_points_reward"

(***************************************************************************)
(* State: the sections of coordinator._data, the clock, and the observer's *)
(* record of the last call.                                                *)
(***************************************************************************)
VARIABLES
    kids_data,                 \* _data["kids"]: kid id -> kid record
    chores_data,               \* _data["chores"]: chore id -> chore record
    badges_data,               \* _data["badges"]: badge id -> badge record
    rewards_data,              \* _data["rewards"]: reward id -> reward record
    achievements_data,         \* _data["achievements"]: id -> achievement
    challenges_data,           \* _data["challenges"]: id -> challenge
    pending_chore_approvals,   \* _data["pending_chore_approvals"]
    pending_reward_approvals,  \* _data["pending_reward_approvals"]
    ledger,                    \* observer: per kid, the deltas applied
    now,                       \* dt_util.utcnow()
    stop,                      \* the instant the run ends at
    last,                      \* the last call: its name, arguments, outcome
    budget                     \* the number of calls the run may still make

vars ==
    << kids_data, chores_data, badges_data, rewards_data, achievements_data,
       challenges_data, pending_chore_approvals, pending_reward_approvals,
       ledger, now, stop, last, budget >>

\* the snapshot a handler starts from
Cur ==
    [ kids |-> kids_data, chores |-> chores_data, badges |-> badges_data,
      rewards |-> rewards_data, achievements |-> achievements_data,
      challenges |-> challenges_data, pca |-> pending_chore_approvals,
      pra |-> pending_reward_approvals, ledger |-> ledger, now |-> now,
      err |-> FALSE ]

Raise(d) == [d EXCEPT !.err = TRUE]

RECURSIVE SeqToSet(_)
SeqToSet(s) == IF s = <<>> THEN {} ELSE {Head(s)} \cup SeqToSet(Tail(s))

RECURSIVE SeqCount(_, _)
SeqCount(s, x) ==
    IF s = <<>> THEN 0
    ELSE (IF Head(s) = x THEN 1 ELSE 0) + SeqCount(Tail(s), x)

\* the sequences without repetition over a set (a python list of distinct ids)
RECURSIVE Orderings(_)
Orderings(S) ==
    IF S = {} THEN {<<>>}
    ELSE UNION { { <<x>> \o o : o \in Orderings(S \ {x}) } : x \in S }

\* the keys of a dict, in the order python iterates them
Items(order, dom) == SelectSeq(order, LAMBDA x : x \in dom)

(***************************************************************************)
(* Records as _create_kid and _create_chore build them                     *)
(***************************************************************************)
NoStreak == [current_streak |-> DEFAULT_ZERO, max_streak |-> DEFAULT_ZERO,
             last_date |-> None]

NewKid ==
    [ points |-> DEFAULT_ZERO,
      points_multiplier |-> DEFAULT_KID_POINTS_MULTIPLIER,
      claimed_chores |-> {}, approved_chores |-> {}, overdue_chores |-> {},
      completed_chores_today |-> DEFAULT_ZERO,
      completed_chores_weekly |-> DEFAULT_ZERO,
      completed_chores_monthly |-> DEFAULT_ZERO,
      completed_chores_total |-> DEFAULT_ZERO,
      points_earned_today |-> DEFAULT_ZERO,
      points_earned_weekly |-> DEFAULT_ZERO,
      points_earned_monthly |-> DEFAULT_ZERO,
      max_points_ever |-> DEFAULT_ZERO,
      pending_rewards |-> [r \in RewardIds |-> 0],
      redeemed_rewards |-> [r \in RewardIds |-> 0],
      chore_streaks |-> [c \in ChoreIds |-> NoStreak],
      overall_chore_streak |-> DEFAULT_ZERO,
      last_chore_date |-> None,
      overdue_notifications |-> [c \in ChoreIds |-> None],
      cumulative_earned_points |-> DEFAULT_ZERO,
      cumulative_badge_baseline |-> None,
      pre_reset_badge |-> NoId ]

NewChore(assigned, shared, multiple, pts, freq, interval, unit, due, days) ==
    [ state |-> CHORE_STATE_PENDING,
      default_points |-> pts,
      allow_multiple_claims_per_day |-> multiple,
      shared_chore |-> shared,
      assigned_kids |-> assigned,
      recurring_frequency |-> freq,
      custom_interval |-> IF freq = FREQUENCY_CUSTOM THEN interval ELSE None,
      custom_interval_unit |-> IF freq = FREQUENCY_CUSTOM THEN unit ELSE NoId,
      due_date |-> due,
      applicable_days |-> days ]

\* a cumulative badge as _create_badge builds it; nobody has earned it
NewBadge(threshold, maintenance, periodically, reset_type, reset_date, grace) ==
    [ type |-> BADGE_TYPE_CUMULATIVE,
      threshold_value |-> threshold,
      points_multiplier |-> DEFAULT_POINTS_MULTIPLIER,
      reset_periodically |-> periodically,
      reset_type |-> reset_type,
      custom_reset_date |-> reset_date,
      reset_grace_period |-> grace,
      maintenance_rules |-> maintenance,
      earned_by |-> {} ]

\* a daily badge as _create_badge builds it
NewDailyBadge(threshold, assigned, multiplier, award_points) ==
    [ type |-> BADGE_TYPE_DAILY,
      daily_threshold |-> threshold,
      assigned_kids |-> assigned,
      points_multiplier |-> multiplier,
      award_points |-> award_points,
      award_mode |-> DEFAULT_BADGE_AWARD_MODE,
      award_reward |-> CONF_EMPTY,
      earned_by |-> {} ]

\* the progress of a kid in an achievement: absent (present is FALSE)
\* until the first evaluation; a streak achievement keeps current_streak
\* and last_streak_date, a total achievement baseline and current_value,
\* a daily-minimum achievement last_awarded_date
NoProgress ==
    [ present |-> FALSE, current_streak |-> DEFAULT_ZERO,
      last_streak_date |-> None, baseline |-> None,
      current_value |-> DEFAULT_ZERO, last_awarded_date |-> None,
      awarded |-> FALSE ]

NewAchievement(type, chore_id, target, reward_points, assigned) ==
    [ type |-> type,
      selected_chore_id |-> chore_id,
      target_value |-> target,
      reward_points |-> reward_points,
      assigned_kids |-> assigned,
      progress |-> [k \in KidIds |-> NoProgress] ]

\* the progress of a kid in a challenge; daily_counts holds the date of
\* every approval counted (the count of a day is its occurrences)
NoChallengeProgress ==
    [ present |-> FALSE, count |-> DEFAULT_ZERO, daily_counts |-> <<>>,
      awarded |-> FALSE ]

NewChallenge(type, chore_id, target, reward_points, assigned, start_date, end_date, required_daily) ==
    [ type |-> type,
      selected_chore_id |-> chore_id,
      target_value |-> target,
      reward_points |-> reward_points,
      assigned_kids |-> assigned,
      start_date |-> start_date,
      end_date |-> end_date,
      required_daily |-> required_daily,
      progress |-> [k \in KidIds |-> NoChallengeProgress] ]

\* what the observer knows of the overdue notifications of a kid for a
\* chore: when the latest one was sent and the due date it named, and
\* whether it came within the cooldown of the one before with the due date
\* not advanced (repeat)
NoNotice == [at |-> None, due |-> None, repeat |-> FALSE]

\* the observer's ledger of a kid: the changes of the balance added up, in
\* all and since the start of the day, the week and the month; the overdue
\* notifications; and how many times the reward points of each achievement
\* and challenge were granted
NewLedger ==
    [deltas |-> 0, today |-> 0, week |-> 0, month |-> 0,
     notices |-> [c \in ChoreIds |-> NoNotice],
     granted |-> [a \in AchievementIds \cup ChallengeIds |-> 0],
     timers |-> {},
     tasks |-> {},
     reminders |-> [i \in ChoreIds \cup RewardIds |-> 0]]

(***************************************************************************)
(* Streaks                                                                 *)
(***************************************************************************)
\* a streak that counts every approval, a second one on the same day too
streak_counting_every_approval(d, kid_id, chore_id, completion_date) ==
    IF kid_id \notin DOMAIN d.kids THEN d
    ELSE
        LET streak == d.kids[kid_id].chore_streaks[chore_id]
            cur == IF streak.last_date # None
                      /\ streak.last_date >= completion_date - 1
                   THEN streak.current_streak + 1
                   ELSE 1
        IN  [d EXCEPT !.kids[kid_id].chore_streaks[chore_id] =
                [ current_streak |-> cur,
                  max_streak |-> Max2(cur, streak.max_streak),
                  last_date |-> completion_date ]]

update_chore_streak_for_kid(d, kid_id, chore_id, completion_date) ==
    IF kid_id \notin DOMAIN d.kids THEN d
    ELSE
        LET streak == d.kids[kid_id].chore_streaks[chore_id]
            last_date == streak.last_date
            cur == IF last_date # None /\ last_date = completion_date - 1
                   THEN streak.current_streak + 1
                   ELSE 1
        IN  IF last_date # None /\ last_date = completion_date THEN d
            ELSE [d EXCEPT !.kids[kid_id].chore_streaks[chore_id] =
                     [ current_streak |-> cur,
                       max_streak |-> Max2(cur, streak.max_streak),
                       last_date |-> completion_date ]]

update_overall_chore_streak(d, kid_id, completion_date) ==
    IF kid_id \notin DOMAIN d.kids THEN d
    ELSE
        LET last_date == d.kids[kid_id].last_chore_date
        IN  IF last_date # None /\ last_date = completion_date THEN d
            ELSE [d EXCEPT
                    !.kids[kid_id].overall_chore_streak =
                        IF last_date # None /\ last_date = completion_date - 1
                        THEN @ + 1 ELSE 1,
                    !.kids[kid_id].last_chore_date = completion_date]

(***************************************************************************)
(* Badges.  The catalogs of this model hold cumulative and daily badges;   *)
(* the other badge types are absent.                                       *)
(***************************************************************************)
\* the last instant of a day: 23:59 (DEFAULT_YEAR_END_HOUR / _MINUTE)
EndOfDay(day) == day * TicksPerDay + (TicksPerDay - 1)

RECURSIVE InsertByThreshold(_, _, _)
InsertByThreshold(badges, s, b) ==
    IF s = <<>> THEN <<b>>
    ELSE IF badges[b].threshold_value < badges[Head(s)].threshold_value
         THEN <<b>> \o s
         ELSE <<Head(s)>> \o InsertByThreshold(badges, Tail(s), b)

RECURSIVE SortByThreshold(_, _)
SortByThreshold(badges, s) ==
    IF s = <<>> THEN <<>>
    ELSE InsertByThreshold(badges,
                           SortByThreshold(badges, SubSeq(s, 1, Len(s) - 1)),
                           s[Len(s)])

\* the cumulative badges, sorted by threshold (list.sort is stable)
cumulative_badges(d) ==
    SortByThreshold(d.badges,
        SelectSeq(Items(BadgeOrder, DOMAIN d.badges),
                  LAMBDA b : d.badges[b].type = BADGE_TYPE_CUMULATIVE))

RECURSIVE IndexOf(_, _)
IndexOf(s, x) ==
    IF s = <<>> THEN 0
    ELSE IF Head(s) = x THEN 1
    ELSE LET i == IndexOf(Tail(s), x) IN IF i = 0 THEN 0 ELSE i + 1

get_next_lower_badge(d, current_badge_id) ==
    LET cb == cumulative_badges(d)
        current_index == IndexOf(cb, current_badge_id)
    IN  IF current_index <= 1 THEN NoId ELSE cb[current_index - 1]

\* returns the snapshot (the function records an upgrade in the kid) and
\* the id of the badge the kid should hold
determine_cumulative_badge_for_kid(d, kid_id) ==
    IF kid_id \notin DOMAIN d.kids THEN [d |-> d, id |-> NoId]
    ELSE
    LET kid_info == d.kids[kid_id]
        cb == cumulative_badges(d)
        baseline == IF kid_info.cumulative_badge_baseline = None
                    THEN DEFAULT_ZERO
                    ELSE kid_info.cumulative_badge_baseline
        cycle_points == kid_info.cumulative_earned_points
        total == baseline + cycle_points
        current_badge_id == kid_info.pre_reset_badge
    IN  IF current_badge_id # NoId
        THEN IF current_badge_id \in SeqToSet(cb)
             THEN IF cycle_points >= d.badges[current_badge_id].maintenance_rules
                  THEN LET ups == SelectSeq(cb, LAMBDA b :
                                   /\ d.badges[b].threshold_value >
                                        d.badges[current_badge_id].threshold_value
                                   /\ total >= d.badges[b].threshold_value)
                       IN  IF ups # <<>>
                           THEN [d |-> [d EXCEPT
                                    !.kids[kid_id].pre_reset_badge = Head(ups),
                                    !.kids[kid_id].cumulative_badge_baseline =
                                        total],
                                 id |-> Head(ups)]
                           ELSE [d |-> d, id |-> current_badge_id]
                  ELSE [d |-> d, id |-> get_next_lower_badge(d, current_badge_id)]
             ELSE [d |-> d, id |-> NoId]
        ELSE LET q == SelectSeq(cb, LAMBDA b :
                          total >= d.badges[b].threshold_value)
             IN  [d |-> d, id |-> IF q = <<>> THEN NoId ELSE q[Len(q)]]

update_kid_multiplier(d, kid_id) ==
    IF kid_id \notin DOMAIN d.kids THEN d
    ELSE
    LET earned_badges == {b \in DOMAIN d.badges : kid_id \in d.badges[b].earned_by}
        mults == {d.badges[b].points_multiplier : b \in earned_badges}
    IN  [d EXCEPT !.kids[kid_id].points_multiplier =
            IF earned_badges = {} THEN DEFAULT_KID_POINTS_MULTIPLIER
            ELSE CHOOSE m \in mults : \A n \in mults : n <= m]

RECURSIVE update_kid_points(_, _, _)

\* the perks of a badge that is not cumulative: its award points
award_badge_points(d, kid_id, extra_points) ==
    IF extra_points = DEFAULT_ZERO THEN d
    ELSE update_kid_points(d, kid_id, d.kids[kid_id].points + extra_points)

\* and its one-time reward: one pending claim of the reward leaves the
\* kid's list and the reward is noted as redeemed; the queue of pending
\* reward approvals is not touched
award_badge_reward(d, kid_id, one_time_reward) ==
    IF one_time_reward = CONF_EMPTY THEN d
    ELSE [d EXCEPT
            !.kids[kid_id].pending_rewards[one_time_reward] =
                IF @ > 0 THEN @ - 1 ELSE @,
            !.kids[kid_id].redeemed_rewards[one_time_reward] =
                IF @ = 0 THEN 1 ELSE @]

\* the award mode decides which of the two perks the badge gives
award_badge_perks(d, kid_id, badge) ==
    LET extra_points ==
            IF badge.award_mode = DATA_BADGE_AWARD_REWARD THEN DEFAULT_ZERO
            ELSE badge.award_points
        one_time_reward ==
            IF badge.award_mode = DATA_BADGE_AWARD_POINTS THEN CONF_EMPTY
            ELSE badge.award_reward
    IN  award_badge_reward(award_badge_points(d, kid_id, extra_points),
                           kid_id, one_time_reward)

award_badge(d, kid_id, badge_id) ==
    IF kid_id \notin DOMAIN d.kids \/ badge_id \notin DOMAIN d.badges THEN d
    ELSE IF kid_id \in d.badges[badge_id].earned_by THEN d
    ELSE
    LET badge == d.badges[badge_id]
        kid_info == d.kids[kid_id]
        periodic == badge.type = BADGE_TYPE_CUMULATIVE /\ badge.reset_periodically
        d1 == [d EXCEPT
                !.kids[kid_id].cumulative_badge_baseline =
                    IF periodic /\ @ = None
                    THEN kid_info.cumulative_earned_points ELSE @,
                !.kids[kid_id].pre_reset_badge =
                    IF periodic /\ @ = NoId THEN badge_id ELSE @,
                !.badges[badge_id].earned_by = @ \cup {kid_id}]
    IN  IF badge.type = BADGE_TYPE_CUMULATIVE
        THEN update_kid_multiplier(d1, kid_id)
        ELSE award_badge_perks(d1, kid_id, badge)

remove_badge_from_kid(d, kid_id, badge_id) ==
    [d EXCEPT !.badges[badge_id].earned_by = @ \ {kid_id}]

\* r is what _determine_cumulative_badge_for_kid returned: the badge it
\* names is awarded, any other is taken from the kid
after_badge_check(r, kid_id, badge_id) ==
    IF r.id = badge_id THEN award_badge(r.d, kid_id, badge_id)
    ELSE remove_badge_from_kid(r.d, kid_id, badge_id)

\* a daily badge goes to the kid who completed enough chores today
check_daily_badge(d, kid_id, badge_id) ==
    IF d.kids[kid_id].completed_chores_today
           >= d.badges[badge_id].daily_threshold
    THEN award_badge(d, kid_id, badge_id)
    ELSE d

\* one iteration of the loop of _check_badges_for_kid
check_badge(d, kid_id, badge_id) ==
    LET badge == d.badges[badge_id]
    IN  IF /\ badge.type # BADGE_TYPE_CUMULATIVE
           /\ badge.assigned_kids # <<>>
           /\ kid_id \notin SeqToSet(badge.assigned_kids)
        THEN d
        ELSE IF kid_id \in badge.earned_by THEN d
        ELSE IF badge.type = BADGE_TYPE_CUMULATIVE
        THEN after_badge_check(determine_cumulative_badge_for_kid(d, kid_id),
                               kid_id, badge_id)
        ELSE IF badge.type = BADGE_TYPE_DAILY
        THEN check_daily_badge(d, kid_id, badge_id)
        ELSE d

RECURSIVE check_badges_loop(_, _, _)
check_badges_loop(d, kid_id, todo) ==
    IF todo = <<>> THEN d
    ELSE check_badges_loop(check_badge(d, kid_id, Head(todo)),
                           kid_id, Tail(todo))

check_badges_for_kid(d, kid_id) ==
    IF kid_id \notin DOMAIN d.kids THEN d
    ELSE check_badges_loop(d, kid_id, Items(BadgeOrder, DOMAIN d.badges))

\* the end of the badge's reset cycle, today being the date of now_local
expected_reset_of(badge, today, now_local) ==
    LET last_month == (((today.month - 1) \div 3) + 1) * 3
    IN  IF badge.reset_type = CONF_YEAR_END
        THEN EndOfDay(DayOf(today.year, DEFAULT_YEAR_END_MONTH,
                            DEFAULT_YEAR_END_DAY))
        ELSE IF badge.reset_type = CONF_QUARTER
        THEN EndOfDay(DayOf(today.year, last_month,
                            monthrange(today.year, last_month)))
        ELSE IF badge.reset_type = CONF_MONTHLY
        THEN EndOfDay(DayOf(today.year, today.month,
                            monthrange(today.year, today.month)))
        ELSE IF badge.reset_type = CONF_CUSTOM /\ badge.custom_reset_date # None
        THEN badge.custom_reset_date
        ELSE now_local

\* returns the snapshot and whether the badge is maintained
process_cumulative_badge_reset(d, kid_id, badge_id) ==
    LET badge == d.badges[badge_id]
        grace_expiration ==
            expected_reset_of(badge, Ymd(DateOf(d.now)), d.now)
                + badge.reset_grace_period * TicksPerDay
        cycle_points == IF kid_id \in DOMAIN d.kids
                        THEN d.kids[kid_id].cumulative_earned_points
                        ELSE DEFAULT_ZERO
        maintenance_required == badge.maintenance_rules
    IN  IF d.now < grace_expiration \/ kid_id \notin DOMAIN d.kids
        THEN [d |-> d, ok |-> cycle_points >= maintenance_required]
        ELSE IF cycle_points >= maintenance_required
        THEN [d |-> [d EXCEPT
                  !.kids[kid_id].cumulative_badge_baseline =
                      (IF @ = None THEN DEFAULT_ZERO ELSE @) + cycle_points,
                  !.kids[kid_id].cumulative_earned_points = DEFAULT_ZERO],
              ok |-> TRUE]
        ELSE [d |-> [d EXCEPT
                  !.kids[kid_id].cumulative_earned_points = DEFAULT_ZERO],
              ok |-> FALSE]

\* r is what _process_cumulative_badge_reset returned: a badge that is not
\* maintained is removed from the kid
after_badge_reset(r, kid_id, badge_id) ==
    IF r.ok THEN r.d ELSE remove_badge_from_kid(r.d, kid_id, badge_id)

RECURSIVE reset_cumulative_badges_loop(_, _, _)
reset_cumulative_badges_loop(d, kid_id, todo) ==
    IF todo = <<>> THEN d
    ELSE reset_cumulative_badges_loop(
             IF d.badges[Head(todo)].type # BADGE_TYPE_CUMULATIVE THEN d
             ELSE after_badge_reset(
                      process_cumulative_badge_reset(d, kid_id, Head(todo)),
                      kid_id, Head(todo)),
             kid_id, Tail(todo))

RECURSIVE reset_cumulative_badges_kids(_, _)
reset_cumulative_badges_kids(d, kids) ==
    IF kids = <<>> THEN d
    ELSE reset_cumulative_badges_kids(
             reset_cumulative_badges_loop(d, Head(kids),
                                          Items(BadgeOrder, DOMAIN d.badges)),
             Tail(kids))

reset_cumulative_badges(d) ==
    reset_cumulative_badges_kids(d, Items(KidOrder, DOMAIN d.kids))

(***************************************************************************)
(* Achievements and challenges.  The challenges of this model have both a  *)
(* start and an end date.                                                  *)
(***************************************************************************)
\* the streak of a progress record, brought up to today
update_streak_progress(progress, today) ==
    LET last_date == progress.last_streak_date
    IN  IF last_date # None /\ last_date = today THEN progress
        ELSE [progress EXCEPT
                !.current_streak =
                    IF last_date # None /\ last_date = today - 1
                    THEN @ + 1 ELSE 1,
                !.last_streak_date = today]

\* the observer notes that the reward points of an item are granted, and
\* the points go through update_kid_points
grant_reward_points(d, kid_id, item_id, extra_points) ==
    IF kid_id \notin DOMAIN d.kids THEN d
    ELSE update_kid_points(
             [d EXCEPT !.ledger[kid_id].granted[item_id] = @ + 1],
             kid_id, d.kids[kid_id].points + extra_points)

\* the progress a kid has in an achievement once it is awarded
awarded_progress(d, kid_id, achievement_id) ==
    LET achievement == d.achievements[achievement_id]
        progress == achievement.progress[kid_id]
        progress_for_kid ==
            IF progress.present THEN progress
            ELSE [NoProgress EXCEPT
                    !.present = TRUE,
                    !.baseline = IF kid_id \in DOMAIN d.kids
                                 THEN d.kids[kid_id].completed_chores_total
                                 ELSE DEFAULT_ZERO]
    IN  [progress_for_kid EXCEPT !.awarded = TRUE,
                                 !.current_value = achievement.target_value]

award_achievement(d, kid_id, achievement_id) ==
    IF achievement_id \notin DOMAIN d.achievements THEN d
    ELSE grant_reward_points(
             [d EXCEPT !.achievements[achievement_id].progress[kid_id] =
                 awarded_progress(d, kid_id, achievement_id)],
             kid_id, achievement_id,
             d.achievements[achievement_id].reward_points)

\* the progress of a kid as _check_achievements_for_kid brings it up to
\* date before it compares it with the target
evaluated_progress(d, kid_id, achievement_id) ==
    LET achievement == d.achievements[achievement_id]
        progress == [achievement.progress[kid_id] EXCEPT !.present = TRUE]
        current_total == d.kids[kid_id].completed_chores_total
    IN  IF achievement.type = ACHIEVEMENT_TYPE_STREAK
        THEN update_streak_progress(progress, DateOf(d.now))
        ELSE IF achievement.type = ACHIEVEMENT_TYPE_TOTAL
        THEN [progress EXCEPT
                !.baseline = IF @ = None THEN current_total ELSE @,
                !.current_value = current_total]
        ELSE progress

\* whether the kid has reached the target (the progress is up to date)
achievement_reached(d, kid_id, achievement_id) ==
    LET achievement == d.achievements[achievement_id]
        progress == achievement.progress[kid_id]
        target == achievement.target_value
        kid_info == d.kids[kid_id]
    IN  IF achievement.type = ACHIEVEMENT_TYPE_STREAK
        THEN progress.current_streak >= target
        ELSE IF achievement.type = ACHIEVEMENT_TYPE_TOTAL
        THEN kid_info.completed_chores_total >= progress.baseline + target
        ELSE IF achievement.type = ACHIEVEMENT_TYPE_DAILY_MIN
        THEN /\ progress.last_awarded_date # DateOf(d.now)
             /\ kid_info.completed_chores_today >= target
        ELSE FALSE

\* the award of an achievement whose target is reached
award_reached_achievement(d, kid_id, achievement_id) ==
    IF ~achievement_reached(d, kid_id, achievement_id) THEN d
    ELSE IF d.achievements[achievement_id].type = ACHIEVEMENT_TYPE_DAILY_MIN
    THEN [award_achievement(d, kid_id, achievement_id) EXCEPT
            !.achievements[achievement_id].progress[kid_id].last_awarded_date =
                DateOf(d.now)]
    ELSE award_achievement(d, kid_id, achievement_id)

\* one iteration of the loop of _check_achievements_for_kid
check_achievement(d, kid_id, achievement_id) ==
    IF /\ d.achievements[achievement_id].progress[kid_id].present
       /\ d.achievements[achievement_id].progress[kid_id].awarded
    THEN d
    ELSE award_reached_achievement(
             [d EXCEPT !.achievements[achievement_id].progress[kid_id] =
                 evaluated_progress(d, kid_id, achievement_id)],
             kid_id, achievement_id)

RECURSIVE check_achievements_loop(_, _, _)
check_achievements_loop(d, kid_id, todo) ==
    IF todo = <<>> THEN d
    ELSE check_achievements_loop(check_achievement(d, kid_id, Head(todo)),
                                 kid_id, Tail(todo))

check_achievements_for_kid(d, kid_id) ==
    IF kid_id \notin DOMAIN d.kids THEN d
    ELSE check_achievements_loop(d, kid_id,
             Items(AchievementOrder, DOMAIN d.achievements))

award_challenge(d, kid_id, challenge_id) ==
    IF challenge_id \notin DOMAIN d.challenges THEN d
    ELSE grant_reward_points(
             [d EXCEPT !.challenges[challenge_id].progress[kid_id] =
                 [@ EXCEPT !.present = TRUE, !.awarded = TRUE,
                           !.count = d.challenges[challenge_id].target_value]],
             kid_id, challenge_id,
             d.challenges[challenge_id].reward_points)

\* every day of the window has its required count
daily_minimum_met(challenge, progress) ==
    LET num_days ==
            ((challenge.end_date - challenge.start_date) \div TicksPerDay) + 1
    IN  \A n \in 0 .. num_days - 1 :
            SeqCount(progress.daily_counts,
                     DateOf(challenge.start_date + n * TicksPerDay))
                >= challenge.required_daily

challenge_reached(d, kid_id, challenge_id) ==
    LET challenge == d.challenges[challenge_id]
        progress == challenge.progress[kid_id]
    IN  IF challenge.type = CHALLENGE_TYPE_TOTAL_WITHIN_WINDOW
        THEN progress.count >= challenge.target_value
        ELSE IF challenge.type = CHALLENGE_TYPE_DAILY_MIN
        THEN daily_minimum_met(challenge, progress)
        ELSE FALSE

\* one iteration of the loop of _check_challenges_for_kid
check_challenge(d, kid_id, challenge_id) ==
    LET challenge == d.challenges[challenge_id]
        progress == challenge.progress[kid_id]
    IN  IF progress.present /\ progress.awarded THEN d
        ELSE IF d.now < challenge.start_date THEN d
        ELSE IF d.now > challenge.end_date THEN d
        ELSE IF challenge.type \notin {CHALLENGE_TYPE_TOTAL_WITHIN_WINDOW,
                                       CHALLENGE_TYPE_DAILY_MIN}
        THEN d
        ELSE IF challenge_reached(d, kid_id, challenge_id)
        THEN award_challenge(d, kid_id, challenge_id)
        ELSE [d EXCEPT
                !.challenges[challenge_id].progress[kid_id].present = TRUE]

RECURSIVE check_challenges_loop(_, _, _)
check_challenges_loop(d, kid_id, todo) ==
    IF todo = <<>> THEN d
    ELSE check_challenges_loop(check_challenge(d, kid_id, Head(todo)),
                               kid_id, Tail(todo))

check_challenges_for_kid(d, kid_id) ==
    IF kid_id \notin DOMAIN d.kids THEN d
    ELSE check_challenges_loop(d, kid_id,
             Items(ChallengeOrder, DOMAIN d.challenges))

\* an approval that reopens the streak achievements of the chore
manage_achievements_reopening(d, kid_id, chore_id) ==
    [d EXCEPT !.achievements = [a \in DOMAIN d.achievements |->
        IF /\ d.achievements[a].type = ACHIEVEMENT_TYPE_STREAK
           /\ d.achievements[a].selected_chore_id = chore_id
        THEN [d.achievements[a] EXCEPT !.progress[kid_id] =
                 [update_streak_progress([@ EXCEPT !.present = TRUE],
                                         DateOf(d.now))
                    EXCEPT !.awarded = FALSE]]
        ELSE d.achievements[a]]]

\* approve_chore brings the streak achievements of the chore up to date
manage_achievements(d, kid_id, chore_id) ==
    [d EXCEPT !.achievements = [a \in DOMAIN d.achievements |->
        IF /\ d.achievements[a].type = ACHIEVEMENT_TYPE_STREAK
           /\ d.achievements[a].selected_chore_id = chore_id
        THEN [d.achievements[a] EXCEPT !.progress[kid_id] =
                 update_streak_progress([@ EXCEPT !.present = TRUE],
                                        DateOf(d.now))]
        ELSE d.achievements[a]]]

\* the progress of a kid in a challenge after the approval of chore_id
counted_approval(d, challenge, kid_id, chore_id) ==
    LET progress == challenge.progress[kid_id]
        selected_chore == challenge.selected_chore_id
    IN  IF challenge.type = CHALLENGE_TYPE_TOTAL_WITHIN_WINDOW
        THEN IF selected_chore # CONF_EMPTY /\ selected_chore # chore_id
             THEN progress
             ELSE IF challenge.start_date <= d.now
                     /\ d.now <= challenge.end_date
             THEN [progress EXCEPT !.present = TRUE, !.count = @ + 1]
             ELSE progress
        ELSE IF challenge.type = CHALLENGE_TYPE_DAILY_MIN
        THEN IF selected_chore = CONF_EMPTY \/ selected_chore # chore_id
             THEN progress
             ELSE IF kid_id \in SeqToSet(challenge.assigned_kids)
             THEN [progress EXCEPT
                     !.present = TRUE,
                     !.daily_counts = Append(@, DateOf(d.now))]
             ELSE progress
        ELSE progress

\* approve_chore counts the approval in the challenges
manage_challenges(d, kid_id, chore_id) ==
    [d EXCEPT !.challenges = [x \in DOMAIN d.challenges |->
        [d.challenges[x] EXCEPT !.progress[kid_id] =
            counted_approval(d, d.challenges[x], kid_id, chore_id)]]]

(***************************************************************************)
(* The points ledger                                                       *)
(***************************************************************************)
\* update_kid_points ends by creating the task _reset_cumulative_badges; the
\* coroutine has no await, so it runs to completion where it is created.
\* the balance set with the counters left as they were
set_points_only(d, kid_id, new_points) ==
    IF kid_id \notin DOMAIN d.kids THEN d
    ELSE [d EXCEPT !.kids[kid_id].points = new_points,
                   !.ledger[kid_id].deltas =
                       @ + (new_points - d.kids[kid_id].points)]

\* what update_kid_points has done when it returns: the balance and the
\* counters are written and the badges checked
update_kid_points_now(d, kid_id, new_points) ==
    IF kid_id \notin DOMAIN d.kids THEN d
    ELSE
    LET old_points == d.kids[kid_id].points
        delta == new_points - old_points
        d1 == [d EXCEPT
                !.kids[kid_id].points = new_points,
                !.kids[kid_id].points_earned_today = @ + delta,
                !.kids[kid_id].points_earned_weekly = @ + delta,
                !.kids[kid_id].points_earned_monthly = @ + delta,
                !.kids[kid_id].cumulative_earned_points =
                    IF delta > 0 THEN @ + delta ELSE @,
                !.kids[kid_id].max_points_ever = Max2(@, new_points),
                !.ledger[kid_id].deltas = @ + delta]
    IN  IF delta = DEFAULT_ZERO THEN d
        ELSE check_challenges_for_kid(
                 check_achievements_for_kid(
                     check_badges_for_kid(d1, kid_id), kid_id), kid_id)

\* update_kid_points and the task it starts, the reset of the cumulative
\* badges, which runs as soon as the call has returned
update_kid_points(d, kid_id, new_points) ==
    IF kid_id \notin DOMAIN d.kids THEN d
    ELSE IF new_points = d.kids[kid_id].points THEN d
    ELSE reset_cumulative_badges(
             update_kid_points_now(d, kid_id, new_points))

(***************************************************************************)
(* Chore lifecycle                                                         *)
(***************************************************************************)
\* a pending approval is <<kid_id, chore_id>>
remove_pending_approvals(pca, kid_id, chore_id) ==
    SelectSeq(pca, LAMBDA ap : ~(ap[1] = kid_id /\ ap[2] = chore_id))

\* the state of one kid for one chore, as the reducer reads it off the lists
kid_chore_state(kids, kid_id, chore_id) ==
    IF kid_id \notin DOMAIN kids THEN CHORE_STATE_PENDING
    ELSE IF chore_id \in kids[kid_id].overdue_chores THEN CHORE_STATE_OVERDUE
    ELSE IF chore_id \in kids[kid_id].approved_chores THEN CHORE_STATE_APPROVED
    ELSE IF chore_id \in kids[kid_id].claimed_chores THEN CHORE_STATE_CLAIMED
    ELSE CHORE_STATE_PENDING

\* a reducer that ranks a claim above an overdue assignee
claim_outranks_overdue(count_overdue, count_approved, count_claimed) ==
    IF count_claimed > DEFAULT_ZERO THEN CHORE_STATE_CLAIMED_IN_PART
    ELSE IF count_overdue > DEFAULT_ZERO THEN CHORE_STATE_OVERDUE
    ELSE IF count_approved > DEFAULT_ZERO THEN CHORE_STATE_APPROVED_IN_PART
    ELSE CHORE_STATE_UNKNOWN

\* the partial state of a shared chore whose assignees differ
shared_partial_state(count_overdue, count_approved, count_claimed) ==
    IF count_overdue > DEFAULT_ZERO THEN CHORE_STATE_OVERDUE
    ELSE IF count_approved > DEFAULT_ZERO THEN CHORE_STATE_APPROVED_IN_PART
    ELSE IF count_claimed > DEFAULT_ZERO THEN CHORE_STATE_CLAIMED_IN_PART
    ELSE CHORE_STATE_UNKNOWN

\* the global state _process_chore_state stores after a kid was processed
\* with new_state
compute_global_state(d, chore_id, new_state) ==
    LET chore_info == d.chores[chore_id]
        assigned_kids == chore_info.assigned_kids
        states == [i \in 1..Len(assigned_kids) |->
                     kid_chore_state(d.kids, assigned_kids[i], chore_id)]
        count(st) == SeqCount(states, st)
        total == Len(assigned_kids)
    IN  IF total = 1 THEN new_state
        ELSE IF total > 1
        THEN IF \/ count(CHORE_STATE_PENDING) = total
                \/ count(CHORE_STATE_CLAIMED) = total
                \/ count(CHORE_STATE_APPROVED) = total
                \/ count(CHORE_STATE_OVERDUE) = total
             THEN new_state
             ELSE IF chore_info.shared_chore
             THEN shared_partial_state(count(CHORE_STATE_OVERDUE),
                                       count(CHORE_STATE_APPROVED),
                                       count(CHORE_STATE_CLAIMED))
             ELSE CHORE_STATE_INDEPENDENT
        ELSE CHORE_STATE_UNKNOWN

\* an approval that leaves the kid's claim where it was
approve_keeping_claim(d, kid_id, chore_id) ==
    [d EXCEPT !.kids[kid_id].approved_chores = @ \cup {chore_id}]

\* the list updates of the CLAIMED and of the APPROVED branch
mark_claimed(d, kid_id, chore_id) ==
    [d EXCEPT !.kids[kid_id].approved_chores = @ \ {chore_id},
              !.kids[kid_id].claimed_chores = @ \cup {chore_id}]

mark_approved(d, kid_id, chore_id) ==
    [d EXCEPT !.kids[kid_id].claimed_chores = @ \ {chore_id},
              !.kids[kid_id].approved_chores = @ \cup {chore_id}]

store_global_state(d, chore_id, new_state) ==
    [d EXCEPT !.chores[chore_id].state =
        compute_global_state(d, chore_id, new_state)]

process_chore_state(d, kid_id, chore_id, new_state, points_awarded) ==
    IF kid_id \notin DOMAIN d.kids \/ chore_id \notin DOMAIN d.chores THEN d
    ELSE
    LET today == DateOf(d.now)
        d0 == [d EXCEPT
                !.kids[kid_id].overdue_chores = @ \ {chore_id},
                !.kids[kid_id].overdue_notifications[chore_id] =
                    IF new_state # CHORE_STATE_OVERDUE THEN None ELSE @]
        d1 == IF new_state = CHORE_STATE_CLAIMED
              THEN [mark_claimed(d0, kid_id, chore_id) EXCEPT
                      !.pca = Append(@, <<kid_id, chore_id>>)]
              ELSE IF new_state = CHORE_STATE_APPROVED
              THEN LET a == mark_approved(d0, kid_id, chore_id)
                       b == IF points_awarded # None
                            THEN update_kid_points(a, kid_id,
                                     a.kids[kid_id].points + points_awarded)
                            ELSE a
                       c == update_overall_chore_streak(
                                update_chore_streak_for_kid(b, kid_id, chore_id,
                                                            today),
                                kid_id, today)
                   IN  [c EXCEPT !.pca =
                            remove_pending_approvals(@, kid_id, chore_id)]
              ELSE IF new_state = CHORE_STATE_PENDING
              THEN [d0 EXCEPT
                      !.kids[kid_id].claimed_chores = @ \ {chore_id},
                      !.kids[kid_id].approved_chores = @ \ {chore_id},
                      !.pca = remove_pending_approvals(@, kid_id, chore_id)]
              ELSE IF new_state = CHORE_STATE_OVERDUE
              THEN [d0 EXCEPT !.kids[kid_id].overdue_chores = @ \cup {chore_id}]
              ELSE d0
    IN  store_global_state(d1, chore_id, new_state)

\* for kid_id in kids: _process_chore_state(kid_id, chore_id, new_state)
RECURSIVE process_each(_, _, _, _)
process_each(d, kids, chore_id, new_state) ==
    IF kids = <<>> THEN d
    ELSE process_each(
             process_chore_state(d, Head(kids), chore_id, new_state, None),
             Tail(kids), chore_id, new_state)

\* a claim that is accepted whatever the kid has done before
claim_again(d, kid_id, chore_id) ==
    IF chore_id \notin DOMAIN d.chores THEN Raise(d)
    ELSE IF kid_id \notin SeqToSet(d.chores[chore_id].assigned_kids) THEN Raise(d)
    ELSE IF kid_id \notin DOMAIN d.kids THEN Raise(d)
    ELSE process_chore_state(
             [d EXCEPT !.kids[kid_id].approved_chores = @ \ {chore_id}],
             kid_id, chore_id, CHORE_STATE_CLAIMED, None)

claim_chore(d, kid_id, chore_id) ==
    IF chore_id \notin DOMAIN d.chores THEN Raise(d)
    ELSE IF kid_id \notin SeqToSet(d.chores[chore_id].assigned_kids) THEN Raise(d)
    ELSE IF kid_id \notin DOMAIN d.kids THEN Raise(d)
    ELSE
    LET chore_info == d.chores[chore_id]
        kid_info == d.kids[kid_id]
        allow_multiple == chore_info.allow_multiple_claims_per_day
        d1 == IF allow_multiple
              THEN [d EXCEPT !.kids[kid_id].approved_chores = @ \ {chore_id}]
              ELSE d
    IN  IF /\ ~allow_multiple
           /\ \/ chore_id \in kid_info.claimed_chores
              \/ chore_id \in kid_info.approved_chores
        THEN Raise(d)
        ELSE process_chore_state(d1, kid_id, chore_id, CHORE_STATE_CLAIMED, None)

\* an approval that is refused when the kid has not claimed the chore
refused_without_claim(d, kid_id, chore_id) ==
    \/ chore_id \notin d.kids[kid_id].claimed_chores
    \/ /\ ~d.chores[chore_id].allow_multiple_claims_per_day
       /\ chore_id \in d.kids[kid_id].approved_chores

\* the approval of a chore already approved today is refused
already_approved(d, kid_id, chore_id) ==
    /\ ~d.chores[chore_id].allow_multiple_claims_per_day
    /\ chore_id \in d.kids[kid_id].approved_chores

\* points_awarded is None when the parent gives no override
\* an award that leaves the kid's multiplier out
award_without_multiplier(points_awarded, default_points, multiplier) ==
    IF points_awarded # None THEN points_awarded ELSE default_points

\* the points of an approval: the override, when one is given, or the
\* chore's default points, times the kid's multiplier
awarded_points_of(points_awarded, default_points, multiplier) ==
    IF points_awarded # None
    THEN points_awarded * multiplier
    ELSE default_points * multiplier

approve_chore(d, kid_id, chore_id, points_awarded) ==
    IF chore_id \notin DOMAIN d.chores THEN Raise(d)
    ELSE IF kid_id \notin SeqToSet(d.chores[chore_id].assigned_kids) THEN Raise(d)
    ELSE IF kid_id \notin DOMAIN d.kids THEN Raise(d)
    ELSE
    LET chore_info == d.chores[chore_id]
        kid_info == d.kids[kid_id]
        allow_multiple == chore_info.allow_multiple_claims_per_day
        multiplier == kid_info.points_multiplier
        awarded_points == awarded_points_of(points_awarded,
                                            chore_info.default_points,
                                            multiplier)
        today == DateOf(d.now)
        d1 == process_chore_state(d, kid_id, chore_id, CHORE_STATE_APPROVED,
                                  awarded_points)
        d2 == [d1 EXCEPT
                !.kids[kid_id].completed_chores_today = @ + 1,
                !.kids[kid_id].completed_chores_weekly = @ + 1,
                !.kids[kid_id].completed_chores_monthly = @ + 1,
                !.kids[kid_id].completed_chores_total = @ + 1]
        d3 == update_overall_chore_streak(
                  update_chore_streak_for_kid(d2, kid_id, chore_id, today),
                  kid_id, today)
    IN  IF already_approved(d, kid_id, chore_id)
        THEN Raise(d)
        ELSE manage_challenges(
                 manage_achievements(
                     [d3 EXCEPT !.pca =
                         remove_pending_approvals(@, kid_id, chore_id)],
                     kid_id, chore_id),
                 kid_id, chore_id)

disapprove_chore(d, kid_id, chore_id) ==
    IF chore_id \notin DOMAIN d.chores THEN Raise(d)
    ELSE IF kid_id \notin DOMAIN d.kids THEN Raise(d)
    ELSE process_chore_state(d, kid_id, chore_id, CHORE_STATE_PENDING, None)

update_chore_state(d, chore_id, state) ==
    IF chore_id \notin DOMAIN d.chores THEN d
    ELSE process_each(d, d.chores[chore_id].assigned_kids, chore_id, state)

(***************************************************************************)
(* Recurrence: _add_months, _reschedule_next_due_date and its callers.     *)
(* A weekday is its number (WEEKDAY_OPTIONS lists mon..sun in the order of *)
(* date.weekday()); local time is UTC.                                     *)
(***************************************************************************)
add_months(dt_in, months) ==
    LET t == Ymd(DateOf(dt_in))
        total_month == t.month + months
        year == t.year + ((total_month - 1) \div 12)
        month == ((total_month - 1) % 12) + 1
        day == Min2(t.day, monthrange(year, month))
    IN  DayOf(year, month, day) * TicksPerDay + TimeOfDay(dt_in)

\* one advance of next_due by the chore's period
add_period(chore_info, next_due) ==
    LET freq == chore_info.recurring_frequency
        custom_interval == chore_info.custom_interval
        custom_unit == chore_info.custom_interval_unit
    IN  IF freq = FREQUENCY_DAILY THEN next_due + TicksPerDay
        ELSE IF freq = FREQUENCY_WEEKLY THEN next_due + 7 * TicksPerDay
        ELSE IF freq = FREQUENCY_BIWEEKLY THEN next_due + 14 * TicksPerDay
        ELSE IF freq = FREQUENCY_MONTHLY THEN add_months(next_due, 1)
        ELSE IF freq = FREQUENCY_CUSTOM
        THEN IF custom_unit = CONF_DAYS
             THEN next_due + custom_interval * TicksPerDay
             ELSE IF custom_unit = CONF_WEEKS
             THEN next_due + 7 * custom_interval * TicksPerDay
             ELSE IF custom_unit = CONF_MONTHS
             THEN add_months(next_due, custom_interval)
             ELSE next_due
        ELSE next_due

\* a calculator that advances the due date by one period and no further
advance_one_period(chore_info, now_local, next_due, first_iteration, fuel) ==
    add_period(chore_info, next_due)

\* the while loop; None when it has not ended after MaxLoop iterations
RECURSIVE next_due_loop(_, _, _, _, _)
next_due_loop(chore_info, now_local, next_due, first_iteration, fuel) ==
    LET applicable_days == chore_info.applicable_days
    IN  IF ~ (\/ first_iteration
              \/ next_due <= now_local
              \/ /\ applicable_days # {}
                 /\ weekday(next_due) \notin applicable_days)
        THEN next_due
        ELSE IF fuel = 0 THEN None
        ELSE next_due_loop(chore_info, now_local,
                 IF first_iteration \/ next_due <= now_local
                 THEN add_period(chore_info, next_due)
                 ELSE next_due + TicksPerDay,
                 FALSE, fuel - 1)

\* the due date stored with the state of the assigned kids left as it was
store_due_date_only(d, chore_id, next_due) ==
    IF next_due = None THEN Raise(d)
    ELSE [d EXCEPT !.chores[chore_id].due_date = next_due]

\* a loop that does not end leaves the call hanging: nothing further is
\* written and the caller sees no return (err)
\* the due date is stored and every assigned kid is back to pending
store_next_due(d, chore_id, next_due) ==
    IF next_due = None THEN Raise(d)
    ELSE process_each([d EXCEPT !.chores[chore_id].due_date = next_due],
                      d.chores[chore_id].assigned_kids, chore_id,
                      CHORE_STATE_PENDING)

reschedule_next_due_date(d, chore_id) ==
    LET chore_info == d.chores[chore_id]
        freq == chore_info.recurring_frequency
    IN  IF /\ freq = FREQUENCY_CUSTOM
           /\ \/ chore_info.custom_interval = None
              \/ chore_info.custom_interval_unit \notin
                     {CONF_DAYS, CONF_WEEKS, CONF_MONTHS}
        THEN d
        ELSE IF freq = FREQUENCY_NONE \/ chore_info.due_date = None THEN d
        ELSE IF chore_info.due_date = Unparsable THEN d
        ELSE store_next_due(d, chore_id,
                 next_due_loop(chore_info, d.now, chore_info.due_date,
                               TRUE, MaxLoop))

skip_chore_due_date(d, chore_id) ==
    IF chore_id \notin DOMAIN d.chores THEN Raise(d)
    ELSE IF d.chores[chore_id].recurring_frequency = FREQUENCY_NONE THEN Raise(d)
    ELSE IF d.chores[chore_id].due_date = None THEN Raise(d)
    ELSE reschedule_next_due_date(d, chore_id)

\* reset_overdue_chores(chore_id=...)
reset_overdue_chores(d, chore_id) ==
    IF chore_id \notin DOMAIN d.chores THEN Raise(d)
    ELSE reschedule_next_due_date(d, chore_id)

\* due_date is None to clear the due date
set_chore_due_date(d, chore_id, due_date) ==
    IF chore_id \notin DOMAIN d.chores THEN Raise(d)
    ELSE
    LET clear == /\ due_date = None
                 /\ d.chores[chore_id].recurring_frequency \notin
                        {FREQUENCY_NONE, FREQUENCY_DAILY, FREQUENCY_WEEKLY}
        d1 == [d EXCEPT
                !.chores[chore_id].due_date = due_date,
                !.chores[chore_id].recurring_frequency =
                    IF clear THEN FREQUENCY_NONE ELSE @,
                !.chores[chore_id].custom_interval = IF clear THEN None ELSE @,
                !.chores[chore_id].custom_interval_unit =
                    IF clear THEN NoId ELSE @]
    IN  process_each(d1, d1.chores[chore_id].assigned_kids, chore_id,
                     CHORE_STATE_PENDING)

\* a scheduler run that reschedules nothing
reschedule_nothing(d) == d

RECURSIVE reschedule_recurring_loop(_, _)
reschedule_recurring_loop(d, todo) ==
    IF todo = <<>> THEN d
    ELSE
    LET chore_id == Head(todo)
        chore_info == d.chores[chore_id]
        d1 == IF /\ chore_info.recurring_frequency \in
                      {FREQUENCY_DAILY, FREQUENCY_WEEKLY, FREQUENCY_BIWEEKLY,
                       FREQUENCY_MONTHLY, FREQUENCY_CUSTOM}
                 /\ chore_info.due_date # None
                 /\ chore_info.due_date # Unparsable
                 /\ d.now > chore_info.due_date
                 /\ chore_info.state \in
                      {CHORE_STATE_APPROVED, CHORE_STATE_APPROVED_IN_PART}
              THEN reschedule_next_due_date(d, chore_id)
              ELSE d
    IN  reschedule_recurring_loop(d1, Tail(todo))

reschedule_recurring_chores(d) ==
    reschedule_recurring_loop(d, Items(ChoreOrder, DOMAIN d.chores))

(***************************************************************************)
(* Rewards, bonuses and penalties.  A pending reward approval is           *)
(* <<kid_id, reward_id>>; the bonus and penalty catalogs never change.     *)
(***************************************************************************)
bonuses_data == [b \in {"bonus1"} |-> [points |-> 1]]
penalties_data == [p \in {"penalty1"} |-> [points |-> 0 - 1]]

\* the list without its first entry equal to x
RECURSIVE RemoveFirst(_, _)
RemoveFirst(s, x) ==
    IF s = <<>> THEN <<>>
    ELSE IF Head(s) = x THEN Tail(s)
    ELSE <<Head(s)>> \o RemoveFirst(Tail(s), x)

\* a redemption on credit: the balance is not looked at
redeem_on_credit(d, kid_id, reward_id) ==
    IF reward_id \notin DOMAIN d.rewards THEN Raise(d)
    ELSE IF kid_id \notin DOMAIN d.kids THEN Raise(d)
    ELSE [d EXCEPT !.kids[kid_id].pending_rewards[reward_id] = @ + 1,
                   !.pra = Append(@, <<kid_id, reward_id>>)]

redeem_reward(d, kid_id, reward_id) ==
    IF reward_id \notin DOMAIN d.rewards THEN Raise(d)
    ELSE IF kid_id \notin DOMAIN d.kids THEN Raise(d)
    ELSE IF d.kids[kid_id].points < d.rewards[reward_id].cost THEN Raise(d)
    ELSE [d EXCEPT !.kids[kid_id].pending_rewards[reward_id] = @ + 1,
                   !.pra = Append(@, <<kid_id, reward_id>>)]

\* a reward approval that notes the reward as redeemed before it looks at
\* the balance
approve_reward_unchecked(d, kid_id, reward_id) ==
    IF kid_id \notin DOMAIN d.kids THEN Raise(d)
    ELSE IF reward_id \notin DOMAIN d.rewards THEN Raise(d)
    ELSE IF d.kids[kid_id].points < d.rewards[reward_id].cost
    THEN Raise([d EXCEPT !.kids[kid_id].redeemed_rewards[reward_id] = @ + 1])
    ELSE [d EXCEPT !.kids[kid_id].points = @ - d.rewards[reward_id].cost,
                   !.kids[kid_id].redeemed_rewards[reward_id] = @ + 1,
                   !.pra = RemoveFirst(@, <<kid_id, reward_id>>)]

\* the notification id approve_reward is called with: none, the id of an
\* entry of the kid and the reward that the queue holds, or an id that no
\* entry of the queue carries (its claim has left the queue)
NOTIF_QUEUED == "queued"
NOTIF_GONE == "gone"
NotifIds == {NoId, NOTIF_QUEUED, NOTIF_GONE}

\* the queue loses one entry of the kid and the reward: the first one when
\* no notification id is passed, else the one that carries the id, if any
remove_reward_approval(approvals, kid_id, reward_id, notif_id) ==
    IF notif_id = NOTIF_GONE THEN approvals
    ELSE RemoveFirst(approvals, <<kid_id, reward_id>>)

\* a reward approval that deducts the cost without looking at the balance
approve_reward_on_credit(d, kid_id, reward_id, notif_id) ==
    IF kid_id \notin DOMAIN d.kids THEN Raise(d)
    ELSE IF reward_id \notin DOMAIN d.rewards THEN Raise(d)
    ELSE
    LET kid_info == d.kids[kid_id]
        cost == d.rewards[reward_id].cost
        d1 == IF kid_info.pending_rewards[reward_id] > 0
              THEN [update_kid_points(d, kid_id, kid_info.points - cost) EXCEPT
                      !.kids[kid_id].pending_rewards[reward_id] = @ - 1,
                      !.kids[kid_id].redeemed_rewards[reward_id] = @ + 1]
              ELSE [d EXCEPT
                      !.kids[kid_id].points = @ - cost,
                      !.kids[kid_id].redeemed_rewards[reward_id] = @ + 1]
    IN  check_badges_for_kid(
            [d1 EXCEPT !.pra = remove_reward_approval(@, kid_id, reward_id,
                                                      notif_id)], kid_id)

approve_reward_notified(d, kid_id, reward_id, notif_id) ==
    IF kid_id \notin DOMAIN d.kids THEN Raise(d)
    ELSE IF reward_id \notin DOMAIN d.rewards THEN Raise(d)
    ELSE
    LET kid_info == d.kids[kid_id]
        cost == d.rewards[reward_id].cost
        pending_count == kid_info.pending_rewards[reward_id]
        d1 == IF pending_count > 0
              THEN [update_kid_points(d, kid_id, kid_info.points - cost) EXCEPT
                      !.kids[kid_id].pending_rewards[reward_id] = @ - 1,
                      !.kids[kid_id].redeemed_rewards[reward_id] = @ + 1]
              ELSE [d EXCEPT
                      !.kids[kid_id].points = @ - cost,
                      !.kids[kid_id].redeemed_rewards[reward_id] = @ + 1]
        d2 == [d1 EXCEPT !.pra = remove_reward_approval(@, kid_id, reward_id,
                                                        notif_id)]
    IN  IF kid_info.points < cost THEN Raise(d)
        ELSE check_badges_for_kid(d2, kid_id)

\* approve_reward without a notification id
approve_reward(d, kid_id, reward_id) ==
    approve_reward_notified(d, kid_id, reward_id, NoId)

disapprove_reward(d, kid_id, reward_id) ==
    IF reward_id \notin DOMAIN d.rewards THEN Raise(d)
    ELSE
    LET d1 == [d EXCEPT !.pra = RemoveFirst(@, <<kid_id, reward_id>>)]
    IN  IF kid_id \in DOMAIN d.kids /\ d.kids[kid_id].pending_rewards[reward_id] > 0
        THEN [d1 EXCEPT !.kids[kid_id].pending_rewards[reward_id] = @ - 1]
        ELSE d1

apply_penalty(d, kid_id, penalty_id) ==
    IF penalty_id \notin DOMAIN penalties_data THEN Raise(d)
    ELSE IF kid_id \notin DOMAIN d.kids THEN Raise(d)
    ELSE update_kid_points(d, kid_id,
             d.kids[kid_id].points + penalties_data[penalty_id].points)

apply_bonus(d, kid_id, bonus_id) ==
    IF bonus_id \notin DOMAIN bonuses_data THEN Raise(d)
    ELSE IF kid_id \notin DOMAIN d.kids THEN Raise(d)
    ELSE update_kid_points(d, kid_id,
             d.kids[kid_id].points + bonuses_data[bonus_id].points)

(***************************************************************************)
(* The overdue sweep                                                       *)
(***************************************************************************)
\* the two loops that clear overdue flags test the list of kid_info, which
\* still names the record of the last assigned kid (the loop above them
\* left it there), whatever kid the loop is at
RECURSIVE clear_overdue_loop(_, _, _, _)
clear_overdue_loop(d, todo, chore_id, kid_info_id) ==
    IF todo = <<>> THEN d
    ELSE
    LET flagged == /\ kid_info_id \in DOMAIN d.kids
                   /\ chore_id \in d.kids[kid_info_id].overdue_chores
        d1 == IF flagged
              THEN process_chore_state(d, Head(todo), chore_id,
                                       CHORE_STATE_PENDING, None)
              ELSE d
    IN  clear_overdue_loop(d1, Tail(todo), chore_id, kid_info_id)

\* the cooldown of the overdue notifications, in instants
NotifyCooldown == (DEFAULT_NOTIFY_DELAY_REMINDER \div 24) * TicksPerDay

\* the notice the observer records when a notification goes out
Notice(seen, due_date, now_utc) ==
    [at |-> now_utc, due |-> due_date,
     repeat |-> /\ seen.at # None
                /\ now_utc - seen.at < NotifyCooldown
                /\ due_date <= seen.due]

\* the kid is notified unless a notification went out within the cooldown
notify_overdue(d, kid_id, chore_id) ==
    LET due_date == d.chores[chore_id].due_date
        last_dt == d.kids[kid_id].overdue_notifications[chore_id]
        notify == \/ last_dt = None
                  \/ last_dt < due_date
                  \/ d.now - last_dt >= NotifyCooldown
    IN  IF notify
        THEN [d EXCEPT
                !.kids[kid_id].overdue_notifications[chore_id] = d.now,
                !.ledger[kid_id].notices[chore_id] =
                    Notice(@, due_date, d.now)]
        ELSE d

RECURSIVE mark_overdue_loop(_, _, _)
mark_overdue_loop(d, todo, chore_id) ==
    IF todo = <<>> \/ d.err THEN d
    ELSE
    LET kid_id == Head(todo)
        acted == /\ kid_id \in DOMAIN d.kids
                 /\ \/ chore_id \in d.kids[kid_id].claimed_chores
                    \/ chore_id \in d.kids[kid_id].approved_chores
    IN  mark_overdue_loop(
            IF acted THEN d
            \* kid_info is {} for a kid without a record: the subscript
            \* kid_info[overdue_notifications] raises KeyError
            ELSE IF kid_id \notin DOMAIN d.kids THEN Raise(d)
            ELSE notify_overdue(
                     process_chore_state(d, kid_id, chore_id,
                                         CHORE_STATE_OVERDUE, None),
                     kid_id, chore_id),
            Tail(todo), chore_id)

check_overdue_chore(d, chore_id) ==
    LET chore_info == d.chores[chore_id]
        assigned_kids == chore_info.assigned_kids
        all_kids_claimed_or_approved ==
            \A i \in 1..Len(assigned_kids) :
                /\ assigned_kids[i] \in DOMAIN d.kids
                /\ \/ chore_id \in d.kids[assigned_kids[i]].claimed_chores
                   \/ chore_id \in d.kids[assigned_kids[i]].approved_chores
        kid_info_id == assigned_kids[Len(assigned_kids)]
        \* no due date and a state that says overdue, or a due date ahead
        not_due == IF chore_info.due_date = None
                   THEN chore_info.state \in
                            {CHORE_STATE_OVERDUE, CHORE_STATE_INDEPENDENT}
                   ELSE /\ chore_info.due_date # Unparsable
                        /\ d.now < chore_info.due_date
    IN  IF all_kids_claimed_or_approved THEN d
        ELSE IF not_due
        THEN clear_overdue_loop(d, assigned_kids, chore_id, kid_info_id)
        ELSE IF chore_info.due_date \in {None, Unparsable} THEN d
        ELSE mark_overdue_loop(d, assigned_kids, chore_id)

RECURSIVE check_overdue_loop(_, _)
check_overdue_loop(d, todo) ==
    IF todo = <<>> \/ d.err THEN d
    ELSE check_overdue_loop(check_overdue_chore(d, Head(todo)), Tail(todo))

check_overdue_chores(d) ==
    check_overdue_loop(d, Items(ChoreOrder, DOMAIN d.chores))

(***************************************************************************)
(* The midnight callback                                                   *)
(***************************************************************************)
RECURSIVE reset_statuses_loop(_, _, _)
reset_statuses_loop(d, todo, target_freqs) ==
    IF todo = <<>> THEN d
    ELSE
    LET chore_id == Head(todo)
        chore_info == d.chores[chore_id]
        frequency == chore_info.recurring_frequency
        d1 == IF ~(frequency \in target_freqs \/ frequency = FREQUENCY_NONE)
              THEN d
              ELSE IF /\ chore_info.due_date \notin {None, Unparsable}
                      /\ d.now < chore_info.due_date
              THEN d
              ELSE IF chore_info.state \notin
                        {CHORE_STATE_PENDING, CHORE_STATE_OVERDUE}
              THEN process_each(d, chore_info.assigned_kids, chore_id,
                                CHORE_STATE_PENDING)
              ELSE d
    IN  reset_statuses_loop(d1, Tail(todo), target_freqs)

\* the pending approvals of the chores of the target frequencies go
clear_target_approvals(d, target_freqs) ==
    LET target_chore_ids == {c \in DOMAIN d.chores :
                               d.chores[c].recurring_frequency \in target_freqs}
    IN  [d EXCEPT !.pca = SelectSeq(@, LAMBDA ap : ap[2] \notin target_chore_ids)]

reset_daily_chore_statuses(d, target_freqs) ==
    clear_target_approvals(
        reset_statuses_loop(d, Items(ChoreOrder, DOMAIN d.chores), target_freqs),
        target_freqs)

\* a reset that also empties the balance
reset_kid_counters_and_balance(d, frequency) ==
    [d EXCEPT !.kids = [k \in DOMAIN d.kids |->
        IF frequency = FREQUENCY_DAILY
        THEN [d.kids[k] EXCEPT !.completed_chores_today = DEFAULT_ZERO,
                               !.points_earned_today = DEFAULT_ZERO,
                               !.points = DEFAULT_ZERO]
        ELSE d.kids[k]]]

\* the counters of every kid for the frequency are zeroed
reset_kid_counters(d, frequency) ==
    [d EXCEPT !.kids = [k \in DOMAIN d.kids |->
        IF frequency = FREQUENCY_DAILY
        THEN [d.kids[k] EXCEPT !.completed_chores_today = DEFAULT_ZERO,
                               !.points_earned_today = DEFAULT_ZERO]
        ELSE IF frequency = FREQUENCY_WEEKLY
        THEN [d.kids[k] EXCEPT !.completed_chores_weekly = DEFAULT_ZERO,
                               !.points_earned_weekly = DEFAULT_ZERO]
        ELSE IF frequency = FREQUENCY_MONTHLY
        THEN [d.kids[k] EXCEPT !.completed_chores_monthly = DEFAULT_ZERO,
                               !.points_earned_monthly = DEFAULT_ZERO]
        ELSE d.kids[k]]]

\* the statuses are reset for the daily and the weekly frequency
reset_statuses_of(d, frequency) ==
    IF frequency \in {FREQUENCY_DAILY, FREQUENCY_WEEKLY}
    THEN reset_daily_chore_statuses(d, {frequency})
    ELSE d

reset_chore_counts(d, frequency) ==
    reset_statuses_of(reset_kid_counters(d, frequency), frequency)

\* DEFAULT_DAILY_RESET_TIME is 00:00:00: now.hour is 0 at the first instant
\* of a day
reset_on(due, d, frequency) ==
    IF due THEN reset_chore_counts(d, frequency) ELSE d

\* today is the date of now
monthly_reset_due(today) ==
    today.day = Min2(DEFAULT_MONTHLY_RESET_DAY,
                     monthrange(today.year, today.month))

handle_recurring_chore_resets(d) ==
    reset_on(monthly_reset_due(Ymd(DateOf(d.now))),
        reset_on(weekday(d.now) = DEFAULT_WEEKLY_RESET_DAY,
            reset_on(TimeOfDay(d.now) = 0,
                reschedule_recurring_chores(d),
                FREQUENCY_DAILY),
            FREQUENCY_WEEKLY),
        FREQUENCY_MONTHLY)

reset_daily_reward_statuses(d) ==
    [d EXCEPT !.pra = <<>>,
              !.kids = [k \in DOMAIN d.kids |->
                          [d.kids[k] EXCEPT
                              !.pending_rewards = [r \in RewardIds |-> 0],
                              !.redeemed_rewards = [r \in RewardIds |-> 0]]]]

\* an exception of the overdue check ends the callback
unless_raised(d) == IF d.err THEN d ELSE reset_cumulative_badges(d)

reset_all_chore_counts(d) ==
    unless_raised(
        check_overdue_chores(
            reset_daily_reward_statuses(
                handle_recurring_chore_resets(d))))

(***************************************************************************)
(* Catalog reconciliation: a reload of the config entry, whose options     *)
(* keep the kids in kids_cfg and give each kept chore its assigned kids    *)
(* and its shared flag (the other chore fields are as stored).             *)
(***************************************************************************)
\* an achievement or a challenge without the progress and the assignment of
\* the kids that are gone; none is the progress of a kid who has none
without_deleted_kids(entity, valid_kid_ids, none) ==
    [entity EXCEPT
        !.progress = [k \in KidIds |->
                         IF k \in valid_kid_ids THEN @[k] ELSE none],
        !.assigned_kids = SelectSeq(@, LAMBDA k : k \in valid_kid_ids)]

cleanup_deleted_kid_references(d) ==
    [d EXCEPT
        !.chores = [c \in DOMAIN d.chores |->
            [d.chores[c] EXCEPT !.assigned_kids =
                SelectSeq(@, LAMBDA k : k \in DOMAIN d.kids)]],
        !.achievements = [a \in DOMAIN d.achievements |->
            without_deleted_kids(d.achievements[a], DOMAIN d.kids, NoProgress)],
        !.challenges = [x \in DOMAIN d.challenges |->
            without_deleted_kids(d.challenges[x], DOMAIN d.kids,
                                 NoChallengeProgress)]]

cleanup_deleted_chore_references(d) ==
    [d EXCEPT !.kids = [k \in DOMAIN d.kids |->
        [d.kids[k] EXCEPT
            !.claimed_chores = @ \cap DOMAIN d.chores,
            !.approved_chores = @ \cap DOMAIN d.chores,
            !.chore_streaks = [c \in ChoreIds |->
                IF c \in DOMAIN d.chores THEN @[c] ELSE NoStreak]]]]

cleanup_deleted_chore_in_achievements(d) ==
    [d EXCEPT !.achievements = [a \in DOMAIN d.achievements |->
        [d.achievements[a] EXCEPT !.selected_chore_id =
            IF @ # CONF_EMPTY /\ @ \notin DOMAIN d.chores
            THEN CONF_EMPTY ELSE @]]]

cleanup_deleted_chore_in_challenges(d) ==
    [d EXCEPT !.challenges = [x \in DOMAIN d.challenges |->
        [d.challenges[x] EXCEPT !.selected_chore_id =
            IF @ # CONF_EMPTY /\ @ \notin DOMAIN d.chores
            THEN CONF_EMPTY ELSE @]]]

cleanup_all_links(d) ==
    cleanup_deleted_chore_in_challenges(
        cleanup_deleted_chore_in_achievements(
            cleanup_deleted_chore_references(
                cleanup_deleted_kid_references(d))))

cleanup_pending_chore_approvals(d) ==
    [d EXCEPT !.pca = SelectSeq(@, LAMBDA ap : ap[2] \in DOMAIN d.chores)]

cleanup_chore_from_kid(d, kid_id, chore_id) ==
    IF kid_id \notin DOMAIN d.kids THEN d
    ELSE [d EXCEPT
            !.kids[kid_id].claimed_chores = @ \ {chore_id},
            !.kids[kid_id].approved_chores = @ \ {chore_id},
            !.kids[kid_id].chore_streaks[chore_id] = NoStreak,
            !.pca = remove_pending_approvals(@, kid_id, chore_id)]

RECURSIVE cleanup_chore_from_kids(_, _, _)
cleanup_chore_from_kids(d, kids, chore_id) ==
    IF kids = <<>> THEN d
    ELSE cleanup_chore_from_kids(cleanup_chore_from_kid(d, Head(kids), chore_id),
                                 Tail(kids), chore_id)

\* chore_data gives the assigned kids (in the order list(set) yields), the
\* shared flag and the due date
update_chore(d, chore_id, chore_data) ==
    LET chore_info == d.chores[chore_id]
        removed_kids == SelectSeq(chore_info.assigned_kids,
                            LAMBDA k : k \notin SeqToSet(chore_data.assigned_kids))
        d1 == cleanup_chore_from_kids(d, removed_kids, chore_id)
        d2 == [d1 EXCEPT
                !.chores[chore_id].shared_chore = chore_data.shared_chore,
                !.chores[chore_id].assigned_kids = chore_data.assigned_kids,
                !.chores[chore_id].due_date = chore_data.due_date]
    IN  check_overdue_chores(d2)

\* _sync_entities for a section: the entries missing from the options go,
\* each followed by the clean-ups
sync_remove(d, kids_gone, chores_gone) ==
    LET d1 == [d EXCEPT
                !.kids = [k \in DOMAIN d.kids \ kids_gone |-> d.kids[k]],
                !.chores = [c \in DOMAIN d.chores \ chores_gone |-> d.chores[c]]]
    IN  IF kids_gone = {} /\ chores_gone = {} THEN d
        ELSE cleanup_pending_chore_approvals(cleanup_all_links(d1))

RECURSIVE update_chores_loop(_, _, _)
update_chores_loop(d, todo, chores_cfg) ==
    IF todo = <<>> THEN d
    ELSE update_chores_loop(update_chore(d, Head(todo), chores_cfg[Head(todo)]),
                            Tail(todo), chores_cfg)

RECURSIVE recalculate_badges_loop(_, _)
recalculate_badges_loop(d, kids) ==
    IF kids = <<>> THEN d
    ELSE recalculate_badges_loop(check_badges_for_kid(d, Head(kids)), Tail(kids))

recalculate_all_badges(d) ==
    recalculate_badges_loop(d, Items(KidOrder, DOMAIN d.kids))

initialize_data_from_config(d, kids_cfg, chores_cfg) ==
    LET d1 == sync_remove(d, DOMAIN d.kids \ kids_cfg, {})
        d2 == sync_remove(d1, {}, DOMAIN d1.chores \ DOMAIN chores_cfg)
        d3 == update_chores_loop(d2, Items(ChoreOrder, DOMAIN d2.chores),
                                 chores_cfg)
    IN  recalculate_all_badges(d3)

(***************************************************************************)
(* Actions: one per service call, timer or callback.  An action applies    *)
(* the handler to the current snapshot and commits what it leaves behind;  *)
(* the observer's ledger adds up the change of each balance.               *)
(***************************************************************************)
\* the record of a call: its name, arguments (arg is the points override of
\* an approval, None for any other call) and outcome, and whether, when
\* the call was made, the kid had claimed the chore, the claim awaited
\* approval, and the due date of the chore had passed
CallWith(op, kid_id, chore_id, arg, d) ==
    [op |-> op, kid |-> kid_id, chore |-> chore_id, arg |-> arg,
     ok |-> ~d.err,
     claimed |-> /\ kid_id \in DOMAIN kids_data
                 /\ chore_id \in kids_data[kid_id].claimed_chores,
     pending |-> <<kid_id, chore_id>> \in SeqToSet(pending_chore_approvals),
     past_due |-> /\ chore_id \in DOMAIN chores_data
                  /\ chores_data[chore_id].due_date # None
                  /\ chores_data[chore_id].due_date <= now]

Call(op, kid_id, chore_id, d) == CallWith(op, kid_id, chore_id, None, d)

BalanceChange(d, k) ==
    IF k \in DOMAIN d.kids /\ k \in DOMAIN kids_data
    THEN d.kids[k].points - kids_data[k].points
    ELSE 0

CommitData(d) ==
    /\ kids_data' = d.kids
    /\ chores_data' = d.chores
    /\ badges_data' = d.badges
    /\ rewards_data' = d.rewards
    /\ achievements_data' = d.achievements
    /\ challenges_data' = d.challenges
    /\ pending_chore_approvals' = d.pca
    /\ pending_reward_approvals' = d.pra

CommitWith(d, op, kid_id, chore_id, arg) ==
    /\ budget' = budget - 1
    /\ CommitData(d)
    /\ ledger' = [k \in KidIds |->
                    [d.ledger[k] EXCEPT !.today = @ + BalanceChange(d, k),
                                        !.week = @ + BalanceChange(d, k),
                                        !.month = @ + BalanceChange(d, k)]]
    /\ last' = CallWith(op, kid_id, chore_id, arg, d)
    /\ UNCHANGED <<now, stop>>

Commit(d, op, kid_id, chore_id) == CommitWith(d, op, kid_id, chore_id, None)

ClaimChore(kid_id, chore_id) ==
    /\ budget > 0
    /\ Len(pending_chore_approvals) < MaxPending
    /\ Commit(claim_chore(Cur, kid_id, chore_id),
           "claim_chore", kid_id, chore_id)

ApproveChore(kid_id, chore_id, points_awarded) ==
    /\ budget > 0
    /\ kid_id \in DOMAIN kids_data
          => /\ kids_data[kid_id].completed_chores_total < MaxApprovals
             /\ kids_data[kid_id].points < MaxPoints
    /\ CommitWith(approve_chore(Cur, kid_id, chore_id, points_awarded),
           "approve_chore", kid_id, chore_id, points_awarded)

DisapproveChore(kid_id, chore_id) ==
    /\ budget > 0
    /\ Commit(disapprove_chore(Cur, kid_id, chore_id),
               "disapprove_chore", kid_id, chore_id)

UpdateChoreState(chore_id, state) ==
    /\ budget > 0
    /\ state = CHORE_STATE_CLAIMED
          => Len(pending_chore_approvals) + Cardinality(KidIds) <= MaxPending
    /\ Commit(update_chore_state(Cur, chore_id, state),
           "update_chore_state", NoId, chore_id)

\* the coordinator's periodic refresh (_async_update_data)
PeriodicUpdate ==
    /\ budget > 0
    /\ Commit(check_overdue_chores(Cur),
               "check_overdue_chores", NoId, NoId)

\* the due date of a chore is not pushed further than MaxAhead days from now
DueSoon(chore_id) ==
    chore_id \in DOMAIN chores_data /\ chores_data[chore_id].due_date # None
        => chores_data[chore_id].due_date <= now + MaxAhead * TicksPerDay

SkipChoreDueDate(chore_id) ==
    /\ budget > 0
    /\ DueSoon(chore_id)
    /\ Commit(skip_chore_due_date(Cur, chore_id),
           "skip_chore_due_date", NoId, chore_id)

ResetOverdueChores(chore_id) ==
    /\ budget > 0
    /\ DueSoon(chore_id)
    /\ Commit(reset_overdue_chores(Cur, chore_id),
           "reset_overdue_chores", NoId, chore_id)

SetChoreDueDate(chore_id, due_date) ==
    /\ budget > 0
    /\ Commit(set_chore_due_date(Cur, chore_id, due_date),
               "set_chore_due_date", NoId, chore_id)

Reload(kids_cfg, chores_cfg) ==
    /\ budget > 0
    /\ Commit(initialize_data_from_config(Cur, kids_cfg, chores_cfg),
               "reload", NoId, NoId)

RedeemReward(kid_id, reward_id) ==
    /\ budget > 0
    /\ Len(pending_reward_approvals) < MaxPending
    /\ Commit(redeem_reward(Cur, kid_id, reward_id),
           "redeem_reward", kid_id, NoId)

ApproveReward(kid_id, reward_id) ==
    /\ budget > 0
    /\ Commit(approve_reward(Cur, kid_id, reward_id),
               "approve_reward", kid_id, NoId)

\* approve_reward from the action of a notification, which carries its id
ApproveRewardNotified(kid_id, reward_id, notif_id) ==
    /\ budget > 0
    /\ notif_id = NOTIF_QUEUED
          => <<kid_id, reward_id>> \in SeqToSet(pending_reward_approvals)
    /\ Commit(approve_reward_notified(Cur, kid_id, reward_id, notif_id),
               "approve_reward", kid_id, NoId)

DisapproveReward(kid_id, reward_id) ==
    /\ budget > 0
    /\ Commit(disapprove_reward(Cur, kid_id, reward_id),
               "disapprove_reward", kid_id, NoId)

ApplyBonus(kid_id, bonus_id) ==
    /\ budget > 0
    /\ kid_id \in DOMAIN kids_data => kids_data[kid_id].points < MaxPoints
    /\ Commit(apply_bonus(Cur, kid_id, bonus_id),
           "apply_bonus", kid_id, NoId)

ApplyPenalty(kid_id, penalty_id) ==
    /\ budget > 0
    /\ kid_id \in DOMAIN kids_data => kids_data[kid_id].points >= DEFAULT_ZERO
    /\ Commit(apply_penalty(Cur, kid_id, penalty_id),
           "apply_penalty", kid_id, NoId)

\* the midnight callback has run: d is the snapshot it leaves, today the
\* date.  The observer opens a new day, week (Monday) and month (the 1st).
Midnight(d, today) ==
    /\ CommitData(d)
    /\ ledger' = [k \in KidIds |->
                    [d.ledger[k] EXCEPT
                        !.today = 0,
                        !.week = IF weekday(d.now) = 0 THEN 0 ELSE @,
                        !.month = IF today.day = 1 THEN 0 ELSE @]]
    /\ last' = Call("reset_all_chore_counts", NoId, NoId, d)

\* time passes; at the first instant of a day the midnight callback runs
Tick ==
    /\ now < stop
    /\ now' = now + 1
    /\ IF IsMidnight(now + 1)
           THEN Midnight(reset_all_chore_counts([Cur EXCEPT !.now = now + 1]),
                         Ymd(DateOf(now + 1)))
           ELSE /\ UNCHANGED <<kids_data, chores_data, badges_data, rewards_data,
                               achievements_data, challenges_data,
                               pending_chore_approvals,
                               pending_reward_approvals, ledger>>
                /\ last' = Call("tick", NoId, NoId, Cur)
    /\ UNCHANGED <<stop, budget>>

(***************************************************************************)
(* Spec: the chore lifecycle.  Two kids and one daily chore due at the end *)
(* of a Sunday, worth no points; the run starts that Sunday morning.       *)
(***************************************************************************)
NoCall ==
    [op |-> "init", kid |-> NoId, chore |-> NoId, arg |-> None, ok |-> TRUE,
     claimed |-> FALSE, pending |-> FALSE, past_due |-> FALSE]

\* Sunday 2024-01-07
StartDay == 6

Assignments == UNION {Orderings(S) : S \in SUBSET KidIds}

Init ==
    /\ now = StartDay * TicksPerDay
    /\ stop = now + MaxElapsed
    /\ kids_data = [k \in KidIds |-> NewKid]
    /\ \E multiple \in BOOLEAN :
          chores_data = [c \in {"c1"} |->
              NewChore(<<"k1", "k2">>, FALSE, multiple, 0, FREQUENCY_DAILY,
                       None, NoId, EndOfDay(StartDay), {})]
    /\ badges_data = <<>>
    /\ rewards_data = <<>>
    /\ achievements_data = <<>>
    /\ challenges_data = <<>>
    /\ pending_chore_approvals = <<>>
    /\ pending_reward_approvals = <<>>
    /\ ledger = [k \in KidIds |-> NewLedger]
    /\ last = NoCall
    /\ budget = MaxCalls

Next ==
    \/ \E k \in KidIds, c \in {"c1"} : ClaimChore(k, c)
    \/ \E k \in KidIds, c \in {"c1"} : ApproveChore(k, c, None)
    \/ \E k \in KidIds, c \in {"c1"} : DisapproveChore(k, c)
    \/ \E c \in {"c1"}, st \in ChoreStates : UpdateChoreState(c, st)
    \/ PeriodicUpdate
    \/ \E c \in {"c1"} : SkipChoreDueDate(c)
    \/ \E c \in {"c1"} : ResetOverdueChores(c)
    \/ \E c \in {"c1"} : SetChoreDueDate(c, None)
    \/ \E kids_cfg \in SUBSET DOMAIN kids_data :
          \E assigned \in Assignments, shared \in BOOLEAN :
              /\ SeqToSet(assigned) \subseteq kids_cfg
              /\ "c1" \in DOMAIN chores_data
              /\ Reload(kids_cfg, [c \in {"c1"} |->
                     [assigned_kids |-> assigned, shared_chore |-> shared,
                      due_date |-> chores_data[c].due_date]])
    \/ Tick

Spec == Init /\ [][Next]_vars

(***************************************************************************)
(* SpecPoints: the points ledger.  One kid, one daily chore worth a point, *)
(* a reward that costs a point, a bonus and a penalty of a point each.     *)
(* The run starts on Sunday 2024-01-07 (a week ends that night) or on      *)
(* Wednesday 2024-01-31 (a month ends that night).                         *)
(***************************************************************************)
InitPoints ==
    /\ \E day \in {StartDay, StartDay + 24} : now = day * TicksPerDay
    /\ stop = now + MaxPointDays * TicksPerDay
    /\ kids_data = [k \in {"k1"} |-> NewKid]
    /\ \E multiple \in BOOLEAN :
          chores_data = [c \in {"c1"} |->
              NewChore(<<"k1">>, FALSE, multiple, 1, FREQUENCY_DAILY,
                       None, NoId, EndOfDay(DateOf(now)), {})]
    /\ badges_data = <<>>
    /\ rewards_data = [r \in RewardIds |-> [cost |-> 1]]
    /\ achievements_data = <<>>
    /\ challenges_data = <<>>
    /\ pending_chore_approvals = <<>>
    /\ pending_reward_approvals = <<>>
    /\ ledger = [k \in KidIds |-> NewLedger]
    /\ last = NoCall
    /\ budget = MaxPointCalls

NextPoints ==
    \/ ClaimChore("k1", "c1")
    \/ ApproveChore("k1", "c1", None)
    \/ DisapproveChore("k1", "c1")
    \/ RedeemReward("k1", "r1")
    \/ ApproveReward("k1", "r1")
    \/ DisapproveReward("k1", "r1")
    \/ ApplyBonus("k1", "bonus1")
    \/ ApplyPenalty("k1", "penalty1")
    \/ Tick

SpecPoints == InitPoints /\ [][NextPoints]_vars

(***************************************************************************)
(* SpecResched: the recurrence calculator.  One kid and one chore worth no *)
(* points, of any frequency; a custom frequency comes with or without its  *)
(* interval and unit (both are optional in the chore form), any other      *)
(* frequency without them.  The due date is the end of one of the last     *)
(* MaxBehind days or of today.  The run starts at midnight of Sunday       *)
(* 2024-01-07 or of Wednesday 2024-01-31 and lasts MaxReschedDays.         *)
(***************************************************************************)
\* the due date lies at most this many days before today
MaxBehind == 2
\* a custom interval is 1 .. MaxInterval
MaxInterval == 2
\* service calls made in a run of the recurrence calculator
MaxReschedCalls == 2
\* days a run of the recurrence calculator lasts
MaxReschedDays == 1

\* the weekday filters: none, Monday, the weekend, Wednesday
DayFilters == {{}, {0}, {5, 6}, {2}}

InitResched ==
    /\ \E day \in {StartDay, StartDay + 24} : now = day * TicksPerDay
    /\ stop = now + MaxReschedDays * TicksPerDay
    /\ kids_data = [k \in {"k1"} |-> NewKid]
    /\ \E freq \in {FREQUENCY_NONE, FREQUENCY_DAILY, FREQUENCY_WEEKLY,
                     FREQUENCY_BIWEEKLY, FREQUENCY_MONTHLY, FREQUENCY_CUSTOM},
          interval \in {None} \cup (1 .. MaxInterval),
          unit \in {NoId, CONF_DAYS, CONF_WEEKS, CONF_MONTHS},
          behind \in 0 .. MaxBehind,
          days \in DayFilters :
          /\ freq # FREQUENCY_CUSTOM => interval = None /\ unit = NoId
          /\ chores_data = [c \in {"c1"} |->
                 NewChore(<<"k1">>, FALSE, FALSE, 0, freq, interval, unit,
                          EndOfDay(DateOf(now) - behind), days)]
    /\ badges_data = <<>>
    /\ rewards_data = <<>>
    /\ achievements_data = <<>>
    /\ challenges_data = <<>>
    /\ pending_chore_approvals = <<>>
    /\ pending_reward_approvals = <<>>
    /\ ledger = [k \in KidIds |-> NewLedger]
    /\ last = NoCall
    /\ budget = MaxReschedCalls

NextResched ==
    \/ ApproveChore("k1", "c1", None)
    \/ SkipChoreDueDate("c1")
    \/ ResetOverdueChores("c1")
    \/ Tick

SpecResched == InitResched /\ [][NextResched]_vars

\* the clock runs and the midnight timer fires (async_track_time_change):
\* Tick is the one action that advances now, and it is enabled until stop
ClockAdvances == now < stop /\ now' = now + 1

SpecReschedFair == SpecResched /\ WF_now(ClockAdvances)

(***************************************************************************)
(* SpecBadge: the ladder of cumulative badges.  One kid and two badges     *)
(* that reset periodically, one of threshold 1 and one of threshold 2, in  *)
(* either order of creation; each asks for 0 to MaxMaintenance points per  *)
(* cycle.  The cycle ends with the month or at the end of the first day,   *)
(* with a grace period of 0 to MaxGrace days.  The run starts at midnight  *)
(* of Sunday 2024-01-07 or of Wednesday 2024-01-31, lasts MaxBadgeDays and *)
(* has the bonus and the penalty of one point.                             *)
(***************************************************************************)
\* a badge asks for 0 .. MaxMaintenance points per cycle
MaxMaintenance == 2
\* a grace period is 0 .. MaxGrace days
MaxGrace == 1
\* service calls made in a run of the badge ladder
MaxBadgeCalls == 3
\* days a run of the badge ladder lasts
MaxBadgeDays == 2

InitBadge ==
    /\ \E day \in {StartDay, StartDay + 24} : now = day * TicksPerDay
    /\ stop = now + MaxBadgeDays * TicksPerDay
    /\ kids_data = [k \in {"k1"} |-> NewKid]
    /\ chores_data = <<>>
    /\ \E low \in {"b1", "b2"},
          maintenance \in [{"b1", "b2"} -> 0 .. MaxMaintenance],
          reset_type \in {CONF_MONTHLY, CONF_CUSTOM},
          grace \in 0 .. MaxGrace :
          badges_data = [b \in {"b1", "b2"} |->
              NewBadge(IF b = low THEN 1 ELSE 2, maintenance[b], TRUE,
                       reset_type,
                       IF reset_type = CONF_CUSTOM
                       THEN EndOfDay(DateOf(now)) ELSE None,
                       grace)]
    /\ rewards_data = <<>>
    /\ achievements_data = <<>>
    /\ challenges_data = <<>>
    /\ pending_chore_approvals = <<>>
    /\ pending_reward_approvals = <<>>
    /\ ledger = [k \in KidIds |-> NewLedger]
    /\ last = NoCall
    /\ budget = MaxBadgeCalls

NextBadge ==
    \/ ApplyBonus("k1", "bonus1")
    \/ ApplyPenalty("k1", "penalty1")
    \/ Tick

SpecBadge == InitBadge /\ [][NextBadge]_vars

(***************************************************************************)
(* SpecAward: the points of an approval.  One kid, one daily chore worth   *)
(* 1 to MaxDefault points, and a cumulative badge of threshold 1 that      *)
(* raises the multiplier of the kid who earns it to MaxMultiplier.  An     *)
(* approval comes without an override or with one of 0 to MaxOverride.     *)
(***************************************************************************)
\* the default points of the chore are 1 .. MaxDefault
MaxDefault == 2
\* the multiplier the badge gives
MaxMultiplier == 2
\* an override is 0 .. MaxOverride
MaxOverride == 2
\* service calls made in a run of the awards
MaxAwardCalls == 3

InitAward ==
    /\ now = StartDay * TicksPerDay
    /\ stop = now + TicksPerDay
    /\ kids_data = [k \in {"k1"} |-> NewKid]
    /\ \E multiple \in BOOLEAN, pts \in 1 .. MaxDefault :
          chores_data = [c \in {"c1"} |->
              NewChore(<<"k1">>, FALSE, multiple, pts, FREQUENCY_DAILY,
                       None, NoId, EndOfDay(DateOf(now)), {})]
    /\ badges_data = [b \in {"b1"} |->
          [NewBadge(1, DEFAULT_ZERO, FALSE, CONF_YEAR_END, None,
                    DEFAULT_BADGE_RESET_GRACE_PERIOD)
              EXCEPT !.points_multiplier = MaxMultiplier]]
    /\ rewards_data = <<>>
    /\ achievements_data = <<>>
    /\ challenges_data = <<>>
    /\ pending_chore_approvals = <<>>
    /\ pending_reward_approvals = <<>>
    /\ ledger = [k \in KidIds |-> NewLedger]
    /\ last = NoCall
    /\ budget = MaxAwardCalls

NextAward ==
    \/ ClaimChore("k1", "c1")
    \/ \E points_awarded \in {None} \cup (0 .. MaxOverride) :
          ApproveChore("k1", "c1", points_awarded)
    \/ Tick

SpecAward == InitAward /\ [][NextAward]_vars

(***************************************************************************)
(* SpecSweep: the overdue sweep.  Two kids and one daily chore assigned to *)
(* both, due at the end of the first day; the kids claim and are approved, *)
(* the sweep runs on its timer and at midnight, and the chore's due date   *)
(* is edited in the options, which reloads the catalog: it stays or moves  *)
(* one to MaxAhead days on.                                                *)
(***************************************************************************)
\* service calls made in a run of the sweep
MaxSweepCalls == 3
\* instants a run of the sweep lasts
MaxSweepElapsed == 3

InitSweep ==
    /\ now = StartDay * TicksPerDay
    /\ stop = now + MaxSweepElapsed
    /\ kids_data = [k \in KidIds |-> NewKid]
    /\ \E shared \in BOOLEAN :
          chores_data = [c \in {"c1"} |->
              NewChore(<<"k1", "k2">>, shared, FALSE, 0, FREQUENCY_DAILY,
                       None, NoId, EndOfDay(StartDay), {})]
    /\ badges_data = <<>>
    /\ rewards_data = <<>>
    /\ achievements_data = <<>>
    /\ challenges_data = <<>>
    /\ pending_chore_approvals = <<>>
    /\ pending_reward_approvals = <<>>
    /\ ledger = [k \in KidIds |-> NewLedger]
    /\ last = NoCall
    /\ budget = MaxSweepCalls

NextSweep ==
    \/ \E k \in KidIds : ClaimChore(k, "c1")
    \/ \E k \in KidIds : ApproveChore(k, "c1", None)
    \/ PeriodicUpdate
    \/ \E days \in 0 .. MaxAhead :
          Reload(DOMAIN kids_data, [c \in {"c1"} |->
              [assigned_kids |-> chores_data[c].assigned_kids,
               shared_chore |-> chores_data[c].shared_chore,
               due_date |-> chores_data[c].due_date + days * TicksPerDay]])
    \/ Tick

SpecSweep == InitSweep /\ [][NextSweep]_vars

(***************************************************************************)
(* SpecBoundary: the resets at the daily, weekly and monthly boundaries.   *)
(* One kid and two chores of any two recurrences, the first due at the end *)
(* of the first day or of the next; the run starts on a Sunday (the        *)
(* midnight that follows opens a week), on a Monday, or on the last day of *)
(* a month, and lasts until that midnight.                                 *)
(***************************************************************************)
\* service calls made in a run to a boundary
MaxBoundaryCalls == 3

InitBoundary ==
    \* Sunday 2024-01-07, Monday 2024-01-08, Wednesday 2024-01-31
    /\ \E day \in {StartDay, StartDay + 1, StartDay + 24} :
          now = day * TicksPerDay
    /\ stop = now + TicksPerDay
    /\ kids_data = [k \in {"k1"} |-> NewKid]
    /\ \E f1, f2 \in {FREQUENCY_NONE, FREQUENCY_DAILY, FREQUENCY_WEEKLY,
                       FREQUENCY_MONTHLY},
          later \in 0 .. MaxAhead :
          chores_data =
              [c \in ChoreIds |->
                  NewChore(<<"k1">>, FALSE, FALSE, 0,
                           IF c = "c1" THEN f1 ELSE f2, None, NoId,
                           EndOfDay(DateOf(now)
                                    + (IF c = "c1" THEN later ELSE 0)),
                           {})]
    /\ badges_data = <<>>
    /\ rewards_data = <<>>
    /\ achievements_data = <<>>
    /\ challenges_data = <<>>
    /\ pending_chore_approvals = <<>>
    /\ pending_reward_approvals = <<>>
    /\ ledger = [k \in KidIds |-> NewLedger]
    /\ last = NoCall
    /\ budget = MaxBoundaryCalls

NextBoundary ==
    \/ \E c \in ChoreIds : ClaimChore("k1", c)
    \/ \E c \in ChoreIds : ApproveChore("k1", c, None)
    \/ PeriodicUpdate
    \/ Tick

SpecBoundary == InitBoundary /\ [][NextBoundary]_vars

(***************************************************************************)
(* SpecCommands: the commands and their refusals.  Kid k1 with a daily     *)
(* chore c1 worth a point and a reward r1 that costs a point; the commands *)
(* also name k2, who is no kid of the household, and c2, which is no chore *)
(* of it.                                                                  *)
(***************************************************************************)
\* service calls made in a run of the commands
MaxCommandCalls == 3

InitCommands ==
    /\ now = StartDay * TicksPerDay
    /\ stop = now + TicksPerDay
    /\ kids_data = [k \in {"k1"} |-> NewKid]
    /\ \E multiple \in BOOLEAN :
          chores_data = [c \in {"c1"} |->
              NewChore(<<"k1">>, FALSE, multiple, 1, FREQUENCY_DAILY,
                       None, NoId, EndOfDay(DateOf(now)), {})]
    /\ badges_data = <<>>
    /\ rewards_data = [r \in RewardIds |-> [cost |-> 1]]
    /\ achievements_data = <<>>
    /\ challenges_data = <<>>
    /\ pending_chore_approvals = <<>>
    /\ pending_reward_approvals = <<>>
    /\ ledger = [k \in KidIds |-> NewLedger]
    /\ last = NoCall
    /\ budget = MaxCommandCalls

NextCommands ==
    \/ \E k \in KidIds, c \in ChoreIds : ClaimChore(k, c)
    \/ \E k \in KidIds, c \in ChoreIds : ApproveChore(k, c, None)
    \/ \E k \in KidIds, c \in ChoreIds : DisapproveChore(k, c)
    \/ \E k \in KidIds : RedeemReward(k, "r1")
    \/ \E k \in KidIds : ApproveReward(k, "r1")
    \/ \E k \in KidIds : ApplyBonus(k, "bonus1")
    \/ \E k \in KidIds : ApplyPenalty(k, "penalty1")
    \/ \E c \in ChoreIds : SkipChoreDueDate(c)
    \/ \E c \in ChoreIds : ResetOverdueChores(c)
    \/ \E c \in ChoreIds : SetChoreDueDate(c, None)
    \/ Tick

SpecCommands == InitCommands /\ [][NextCommands]_vars

(***************************************************************************)
(* SpecAchieve: achievements and challenges.  One kid and two chores that  *)
(* may be approved any number of times a day, a point each.  Achievement   *)
(* a1 is a streak of chore c1 (of 1 or MaxTarget days), a2 a total or a    *)
(* daily minimum of 1 to MaxCount chores; challenge x1                     *)
(* counts approvals of c1 in a window of two days from the start of the    *)
(* run.  Each grants one point.  The run starts on Sunday 2024-01-07.      *)
(***************************************************************************)
\* the highest target of the streak achievement
MaxTarget == 3
\* the highest target of the other achievement and of the challenge
MaxCount == 2
\* service calls made in a run of the achievements
MaxAchieveCalls == 4
\* days a run of the achievements lasts
MaxAchieveDays == 3

\* an approval in a run that only the number of calls bounds
ApproveChoreCall(kid_id, chore_id) ==
    /\ budget > 0
    /\ CommitWith(approve_chore(Cur, kid_id, chore_id, None),
           "approve_chore", kid_id, chore_id, None)

InitAchieve ==
    /\ now = StartDay * TicksPerDay
    /\ stop = now + MaxAchieveDays * TicksPerDay
    /\ kids_data = [k \in {"k1"} |-> NewKid]
    /\ chores_data = [c \in ChoreIds |->
          NewChore(<<"k1">>, FALSE, TRUE, 1, FREQUENCY_NONE, None, NoId,
                   None, {})]
    /\ badges_data = <<>>
    /\ rewards_data = <<>>
    /\ \E streak_target \in {1, MaxTarget},
          type \in {ACHIEVEMENT_TYPE_TOTAL, ACHIEVEMENT_TYPE_DAILY_MIN},
          target \in 1 .. MaxCount :
          achievements_data =
              [a \in AchievementIds |->
                  IF a = "a1"
                  THEN NewAchievement(ACHIEVEMENT_TYPE_STREAK, "c1",
                                      streak_target, 1, <<"k1">>)
                  ELSE NewAchievement(type, CONF_EMPTY, target, 1, <<"k1">>)]
    /\ \E type \in {CHALLENGE_TYPE_TOTAL_WITHIN_WINDOW,
                    CHALLENGE_TYPE_DAILY_MIN} :
          challenges_data =
              [x \in ChallengeIds |->
                  NewChallenge(type, "c1", MaxCount, 1, <<"k1">>,
                               now, EndOfDay(StartDay + 1), 1)]
    /\ pending_chore_approvals = <<>>
    /\ pending_reward_approvals = <<>>
    /\ ledger = [k \in KidIds |-> NewLedger]
    /\ last = NoCall
    /\ budget = MaxAchieveCalls

NextAchieve ==
    \/ \E c \in ChoreIds : ApproveChoreCall("k1", c)
    \/ ApplyBonus("k1", "bonus1")
    \/ Tick

SpecAchieve == InitAchieve /\ [][NextAchieve]_vars

(***************************************************************************)
(* SpecTier: upgrades on the ladder of cumulative badges.  One kid, one    *)
(* chore that may be approved any number of times a day, and three badges  *)
(* of thresholds 1, 2 and 3 in any order of creation, all reset            *)
(* periodically (at the end of the month) or none, each asking for the     *)
(* same 0 to MaxMaintenance points per cycle.  An approval awards 1 to     *)
(* MaxOverride points.  The run is Sunday 2024-01-07.                      *)
(***************************************************************************)
\* service calls made in a run of the upgrades
MaxTierCalls == 3

InitTier ==
    /\ now = StartDay * TicksPerDay
    /\ stop = now + TicksPerDay
    /\ kids_data = [k \in {"k1"} |-> NewKid]
    /\ chores_data = [c \in {"c1"} |->
          NewChore(<<"k1">>, FALSE, TRUE, 1, FREQUENCY_NONE, None, NoId,
                   None, {})]
    /\ \E threshold \in [BadgeIds -> 1 .. Cardinality(BadgeIds)],
          maintenance \in 0 .. MaxMaintenance,
          periodically \in BOOLEAN :
          /\ \A b, c \in BadgeIds : threshold[b] = threshold[c] => b = c
          /\ badges_data = [b \in BadgeIds |->
                NewBadge(threshold[b], maintenance, periodically,
                         CONF_MONTHLY, None, DEFAULT_ZERO)]
    /\ rewards_data = <<>>
    /\ achievements_data = <<>>
    /\ challenges_data = <<>>
    /\ pending_chore_approvals = <<>>
    /\ pending_reward_approvals = <<>>
    /\ ledger = [k \in KidIds |-> NewLedger]
    /\ last = NoCall
    /\ budget = MaxTierCalls

NextTier ==
    \/ \E points_awarded \in 1 .. MaxOverride :
          ApproveChore("k1", "c1", points_awarded)
    \/ ApplyPenalty("k1", "penalty1")
    \/ Tick

SpecTier == InitTier /\ [][NextTier]_vars

(***************************************************************************)
(* SpecDaily: the daily badge and the multiplier.  One kid, one chore that *)
(* may be approved any number of times a day, a cumulative badge of        *)
(* threshold 1 whose cycle ends at the end of the day, without grace, and  *)
(* which asks for 0 to MaxMaintenance points per cycle, and a daily badge  *)
(* of threshold 1 to MaxDailyThreshold assigned to the kid.  Each badge    *)
(* gives a multiplier of 1 to MaxMultiplier and the daily badge awards 0   *)
(* or 1 point.  An approval awards 0 to MaxOverride points.  The run is    *)
(* Sunday 2024-01-07.                                                      *)
(***************************************************************************)
\* the daily badge asks for 1 .. MaxDailyThreshold chores a day
MaxDailyThreshold == 2
\* service calls made in a run of the daily badge
MaxDailyCalls == 3

InitDaily ==
    /\ now = StartDay * TicksPerDay
    /\ stop = now + TicksPerDay
    /\ kids_data = [k \in {"k1"} |-> NewKid]
    /\ chores_data = [c \in {"c1"} |->
          NewChore(<<"k1">>, FALSE, TRUE, 1, FREQUENCY_NONE, None, NoId,
                   None, {})]
    /\ \E maintenance \in 0 .. MaxMaintenance,
          threshold \in 1 .. MaxDailyThreshold,
          multiplier \in [{"b1", "b2"} ->
                             DEFAULT_KID_POINTS_MULTIPLIER .. MaxMultiplier],
          award_points \in {DEFAULT_ZERO, 1} :
          badges_data =
              [b \in {"b1", "b2"} |->
                  IF b = "b1"
                  THEN [NewBadge(1, maintenance, TRUE, CONF_CUSTOM,
                                 EndOfDay(DateOf(now)), DEFAULT_ZERO)
                           EXCEPT !.points_multiplier = multiplier[b]]
                  ELSE NewDailyBadge(threshold, <<"k1">>, multiplier[b],
                                     award_points)]
    /\ rewards_data = <<>>
    /\ achievements_data = <<>>
    /\ challenges_data = <<>>
    /\ pending_chore_approvals = <<>>
    /\ pending_reward_approvals = <<>>
    /\ ledger = [k \in KidIds |-> NewLedger]
    /\ last = NoCall
    /\ budget = MaxDailyCalls

NextDaily ==
    \/ \E points_awarded \in 0 .. MaxOverride :
          ApproveChore("k1", "c1", points_awarded)
    \/ ApplyPenalty("k1", "penalty1")
    \/ Tick

SpecDaily == InitDaily /\ [][NextDaily]_vars

(***************************************************************************)
(* SpecCatalog: the reconciliation of the catalog.  Two kids, two chores   *)
(* (the first assigned to both kids, the second to one of them), a streak  *)
(* achievement and a challenge on a chore each, and a total achievement,   *)
(* all assigned to both kids.  The kids claim chores; a reload brings      *)
(* options with any of the kids and of the chores left, the chores that    *)
(* stay being assigned to the kids that stay.  The options of the          *)
(* achievements and challenges do not change.  The run is Sunday           *)
(* 2024-01-07.                                                             *)
(***************************************************************************)
\* service calls and reloads made in a run of the catalog
MaxCatalogCalls == 3

InitCatalog ==
    /\ now = StartDay * TicksPerDay
    /\ stop = now + TicksPerDay
    /\ kids_data = [k \in KidIds |-> NewKid]
    /\ \E k \in KidIds :
          chores_data = [c \in ChoreIds |->
              NewChore(IF c = "c1" THEN KidOrder ELSE <<k>>, FALSE, FALSE, 1,
                       FREQUENCY_NONE, None, NoId, None, {})]
    /\ badges_data = <<>>
    /\ rewards_data = <<>>
    /\ \E c \in ChoreIds :
          achievements_data =
              [a \in AchievementIds |->
                  IF a = "a1"
                  THEN NewAchievement(ACHIEVEMENT_TYPE_STREAK, c,
                                      DEFAULT_ACHIEVEMENT_TARGET,
                                      DEFAULT_ACHIEVEMENT_REWARD_POINTS,
                                      KidOrder)
                  ELSE NewAchievement(ACHIEVEMENT_TYPE_TOTAL, CONF_EMPTY,
                                      DEFAULT_ACHIEVEMENT_TARGET,
                                      DEFAULT_ACHIEVEMENT_REWARD_POINTS,
                                      KidOrder)]
    /\ \E c \in ChoreIds :
          challenges_data =
              [x \in ChallengeIds |->
                  NewChallenge(CHALLENGE_TYPE_TOTAL_WITHIN_WINDOW, c,
                               DEFAULT_ACHIEVEMENT_TARGET,
                               DEFAULT_ACHIEVEMENT_REWARD_POINTS, KidOrder,
                               now, EndOfDay(StartDay), 1)]
    /\ pending_chore_approvals = <<>>
    /\ pending_reward_approvals = <<>>
    /\ ledger = [k \in KidIds |-> NewLedger]
    /\ last = NoCall
    /\ budget = MaxCatalogCalls

\* the options a reload finds: the kids and the chores of ids, each chore
\* as it is but for the assigned kids that are gone
ReloadCatalog(kids_cfg, chore_ids) ==
    /\ budget > 0
    /\ kids_cfg \subseteq DOMAIN kids_data
    /\ chore_ids \subseteq DOMAIN chores_data
    /\ Commit(initialize_data_from_config(Cur, kids_cfg,
                  [c \in chore_ids |->
                      [assigned_kids |->
                           SelectSeq(chores_data[c].assigned_kids,
                                     LAMBDA k : k \in kids_cfg),
                       shared_chore |-> chores_data[c].shared_chore,
                       due_date |-> chores_data[c].due_date]]),
              "reload", NoId, NoId)

NextCatalog ==
    \/ \E k \in KidIds, c \in ChoreIds : ClaimChore(k, c)
    \/ \E kids_cfg \in SUBSET KidIds, chore_ids \in SUBSET ChoreIds :
          ReloadCatalog(kids_cfg, chore_ids)
    \/ Tick

SpecCatalog == InitCatalog /\ [][NextCatalog]_vars

(***************************************************************************)
(* SpecRemind: the reminders.  One kid, one chore worth a point and one    *)
(* reward that costs a point.  A parent who was notified of a claim or of  *)
(* a redemption that awaits approval may ask to be reminded: the call      *)
(* sleeps for 30 minutes and then looks at the chore or at the reward.  A  *)
(* reminder asked for at midnight wakes up before the clock moves on, one  *)
(* asked for at 23:59 after the midnight callback.  ledger[k].timers holds *)
(* the calls that sleep and ledger[k].reminders counts the reminders sent  *)
(* to the parents.  The run is Sunday 2024-01-07.                          *)
(***************************************************************************)
\* service calls made in a run of the reminders
MaxRemindCalls == 4

\* remind_in_minutes up to its sleep
remind_in_minutes(d, kid_id, chore_id, reward_id) ==
    [d EXCEPT !.ledger[kid_id].timers =
        @ \cup {[chore_id |-> chore_id, reward_id |-> reward_id,
                 at |-> d.now]}]

\* the parents of the kid are sent a reminder about the item
notify_parents_reminder(d, kid_id, item_id) ==
    [d EXCEPT !.ledger[kid_id].reminders[item_id] = @ + 1]

\* remind_in_minutes from the end of its sleep
remind_after_sleep(d, kid_id, chore_id, reward_id) ==
    IF kid_id \notin DOMAIN d.kids THEN d
    ELSE IF chore_id # NoId
    THEN IF chore_id \notin DOMAIN d.chores THEN d
         ELSE IF d.chores[chore_id].state \notin
                    {CHORE_STATE_PENDING, CHORE_STATE_CLAIMED,
                     CHORE_STATE_OVERDUE}
         THEN d
         ELSE notify_parents_reminder(d, kid_id, chore_id)
    ELSE IF reward_id # NoId
    THEN IF d.kids[kid_id].pending_rewards[reward_id] = 0 THEN d
         ELSE notify_parents_reminder(d, kid_id, reward_id)
    ELSE d

\* the sleep of the timer is over at the instant t
TimerDue(timer, t) ==
    IF IsMidnight(timer.at) THEN t = timer.at ELSE t = timer.at + 1

InitRemind ==
    /\ \E t \in {StartDay * TicksPerDay, EndOfDay(StartDay)} : now = t
    /\ stop = (StartDay + 1) * TicksPerDay
    /\ kids_data = [k \in {"k1"} |-> NewKid]
    /\ \E multiple \in BOOLEAN :
          chores_data = [c \in {"c1"} |->
              NewChore(<<"k1">>, FALSE, multiple, 1, FREQUENCY_NONE,
                       None, NoId, None, {})]
    /\ badges_data = <<>>
    /\ rewards_data = [r \in RewardIds |-> [cost |-> 1]]
    /\ achievements_data = <<>>
    /\ challenges_data = <<>>
    /\ pending_chore_approvals = <<>>
    /\ pending_reward_approvals = <<>>
    /\ ledger = [k \in KidIds |-> NewLedger]
    /\ last = NoCall
    /\ budget = MaxRemindCalls

\* the parent taps "Remind in 30 mins" on the notification of a claim or
\* of a redemption that awaits approval
RemindInMinutes(kid_id, chore_id, reward_id) ==
    /\ budget > 0
    /\ kid_id \in DOMAIN kids_data
    /\ \/ /\ chore_id # NoId /\ reward_id = NoId
          /\ <<kid_id, chore_id>> \in SeqToSet(pending_chore_approvals)
       \/ /\ chore_id = NoId /\ reward_id # NoId
          /\ <<kid_id, reward_id>> \in SeqToSet(pending_reward_approvals)
    /\ \A timer \in ledger[kid_id].timers :
          timer.chore_id # chore_id \/ timer.reward_id # reward_id
    /\ Commit(remind_in_minutes(Cur, kid_id, chore_id, reward_id),
              "remind_in_minutes", kid_id, chore_id)

\* a call of remind_in_minutes wakes up
ReminderFires(kid_id, chore_id, reward_id) ==
    /\ \E timer \in ledger[kid_id].timers :
          /\ timer.chore_id = chore_id /\ timer.reward_id = reward_id
          /\ TimerDue(timer, now)
          /\ CommitData(Cur)
          /\ ledger' =
                [remind_after_sleep(Cur, kid_id, chore_id, reward_id).ledger
                    EXCEPT ![kid_id].timers = @ \ {timer}]
    /\ last' = Call("reminder", kid_id, chore_id, Cur)
    /\ UNCHANGED <<now, stop, budget>>

\* the clock moves on once the calls whose sleep is over have woken up
TickAfterReminders ==
    /\ \A k \in KidIds : \A timer \in ledger[k].timers :
          ~TimerDue(timer, now)
    /\ Tick

NextRemind ==
    \/ ClaimChore("k1", "c1")
    \/ ApproveChore("k1", "c1", None)
    \/ DisapproveChore("k1", "c1")
    \/ RedeemReward("k1", "r1")
    \/ ApproveReward("k1", "r1")
    \/ DisapproveReward("k1", "r1")
    \/ RemindInMinutes("k1", "c1", NoId)
    \/ RemindInMinutes("k1", NoId, "r1")
    \/ ReminderFires("k1", "c1", NoId)
    \/ ReminderFires("k1", NoId, "r1")
    \/ TickAfterReminders

SpecRemind == InitRemind /\ [][NextRemind]_vars

(***************************************************************************)
(* SpecNotify: the notifications.  One kid and one daily chore due at the  *)
(* end of the first day.  A claim, an approval, a disapproval and the      *)
(* overdue sweep hand their notification to the event loop as a task;      *)
(* ledger[k].tasks holds the titles of the tasks that have not run yet.  A *)
(* task runs at any later time, or never, and either delivers its          *)
(* notification or fails.  The run starts on Sunday 2024-01-07.            *)
(***************************************************************************)
\* service calls made in a run of the notifications
MaxNotifyCalls == 3

NotificationTitles ==
    {"Chore Claimed", "Chore Approved", "Chore Disapproved", "Chore Overdue"}

\* hass.async_create_task(self._notify_kid(...)) or (self._notify_parents(...))
async_create_task(d, kid_id, title) ==
    [d EXCEPT !.ledger[kid_id].tasks = @ \cup {title}]

\* the end of a handler that did not raise: its notification is dispatched
dispatch_notification(d, kid_id, title) ==
    IF d.err THEN d ELSE async_create_task(d, kid_id, title)

\* the overdue sweep and the notifications it dispatches: one task for
\* each kid it has just notified of an overdue chore (before is the
\* snapshot the sweep started from)
RECURSIVE dispatch_overdue(_, _, _)
dispatch_overdue(before, d, kids) ==
    IF kids = <<>> THEN d
    ELSE dispatch_overdue(before,
             IF d.ledger[Head(kids)].notices # before.ledger[Head(kids)].notices
             THEN async_create_task(d, Head(kids), "Chore Overdue")
             ELSE d,
             Tail(kids))

\* a task whose failure undoes what the kid had claimed or been approved
run_notification_rolling_back(d, kid_id, title, fails) ==
    LET d1 == [d EXCEPT !.ledger[kid_id].tasks = @ \ {title}]
    IN  IF fails
        THEN Raise([d1 EXCEPT !.kids[kid_id].claimed_chores = {},
                              !.kids[kid_id].approved_chores = {},
                              !.pca = <<>>])
        ELSE d1

\* the task of _notify_kid or _notify_parents runs: the notification is
\* sent, or the call of the notify service raises inside the task
run_notification(d, kid_id, title, fails) ==
    LET d1 == [d EXCEPT !.ledger[kid_id].tasks = @ \ {title}]
    IN  IF fails THEN Raise(d1) ELSE d1

InitNotify ==
    /\ now = StartDay * TicksPerDay
    /\ stop = now + TicksPerDay
    /\ kids_data = [k \in {"k1"} |-> NewKid]
    /\ \E multiple \in BOOLEAN :
          chores_data = [c \in {"c1"} |->
              NewChore(<<"k1">>, FALSE, multiple, 1, FREQUENCY_DAILY,
                       None, NoId, EndOfDay(StartDay), {})]
    /\ badges_data = <<>>
    /\ rewards_data = <<>>
    /\ achievements_data = <<>>
    /\ challenges_data = <<>>
    /\ pending_chore_approvals = <<>>
    /\ pending_reward_approvals = <<>>
    /\ ledger = [k \in KidIds |-> NewLedger]
    /\ last = NoCall
    /\ budget = MaxNotifyCalls

ClaimChoreNotifying(kid_id, chore_id) ==
    /\ budget > 0
    /\ Len(pending_chore_approvals) < MaxPending
    /\ Commit(dispatch_notification(claim_chore(Cur, kid_id, chore_id),
                                    kid_id, "Chore Claimed"),
              "claim_chore", kid_id, chore_id)

ApproveChoreNotifying(kid_id, chore_id) ==
    /\ budget > 0
    /\ Commit(dispatch_notification(approve_chore(Cur, kid_id, chore_id, None),
                                    kid_id, "Chore Approved"),
              "approve_chore", kid_id, chore_id)

DisapproveChoreNotifying(kid_id, chore_id) ==
    /\ budget > 0
    /\ Commit(dispatch_notification(disapprove_chore(Cur, kid_id, chore_id),
                                    kid_id, "Chore Disapproved"),
              "disapprove_chore", kid_id, chore_id)

PeriodicUpdateNotifying ==
    /\ budget > 0
    /\ Commit(dispatch_overdue(Cur, check_overdue_chores(Cur),
                               Items(KidOrder, DOMAIN kids_data)),
              "check_overdue_chores", NoId, NoId)

\* the event loop runs a notification task
NotificationRuns(kid_id, title, fails) ==
    /\ title \in ledger[kid_id].tasks
    /\ CommitData(run_notification(Cur, kid_id, title, fails))
    /\ ledger' = run_notification(Cur, kid_id, title, fails).ledger
    /\ last' = Call("notify", kid_id, NoId,
                    run_notification(Cur, kid_id, title, fails))
    /\ UNCHANGED <<now, stop, budget>>

NextNotify ==
    \/ ClaimChoreNotifying("k1", "c1")
    \/ ApproveChoreNotifying("k1", "c1")
    \/ DisapproveChoreNotifying("k1", "c1")
    \/ PeriodicUpdateNotifying
    \/ \E title \in NotificationTitles, fails \in BOOLEAN :
          NotificationRuns("k1", title, fails)
    \/ Tick

SpecNotify == InitNotify /\ [][NextNotify]_vars

(***************************************************************************)
(* SpecStored: the sweeps over records as the storage file holds them.     *)
(* One kid has a record; the first chore of the catalog has a due date     *)
(* that is well formed or does not parse, and is assigned to the kid, to a *)
(* kid id without a record, or to both; the second chore is well formed    *)
(* and assigned to the kid.  Both are due at the end of the first day.     *)
(***************************************************************************)
\* service calls made in a run over the stored records
MaxStoredCalls == 3

InitStored ==
    /\ now = StartDay * TicksPerDay
    /\ stop = now + TicksPerDay
    /\ kids_data = [k \in {"k1"} |-> NewKid]
    /\ \E due \in {EndOfDay(StartDay), Unparsable},
          assigned \in {<<"k1">>, <<"k2">>, <<"k2", "k1">>} :
          chores_data = [c \in ChoreIds |->
              IF c = "c1"
              THEN NewChore(assigned, FALSE, FALSE, 0, FREQUENCY_DAILY,
                            None, NoId, due, {})
              ELSE NewChore(<<"k1">>, FALSE, FALSE, 0, FREQUENCY_DAILY,
                            None, NoId, EndOfDay(StartDay), {})]
    /\ badges_data = <<>>
    /\ rewards_data = <<>>
    /\ achievements_data = <<>>
    /\ challenges_data = <<>>
    /\ pending_chore_approvals = <<>>
    /\ pending_reward_approvals = <<>>
    /\ ledger = [k \in KidIds |-> NewLedger]
    /\ last = NoCall
    /\ budget = MaxStoredCalls

NextStored ==
    \/ \E c \in ChoreIds : ClaimChore("k1", c)
    \/ \E c \in ChoreIds : ApproveChore("k1", c, None)
    \/ PeriodicUpdate
    \/ Tick

SpecStored == InitStored /\ [][NextStored]_vars

(***************************************************************************)
(* SpecSchedule: kc_helpers.get_next_scheduled_datetime, one iteration of  *)
(* its require_future loop per step.  Datetimes are instants (local time   *)
(* is UTC); the interval types and units that const.py does not set are    *)
(* named by their lower-case names.  last holds the call in progress: its  *)
(* interval type, its reference, the result so far and whether the helper  *)
(* has returned.                                                           *)
(***************************************************************************)
CONF_DAILY == "daily"
CONF_WEEKLY == "weekly"
CONF_CUSTOM_1_WEEK == "custom_1_week"
CONF_BIWEEKLY == "biweekly"
CONF_CUSTOM_1_MONTH == "custom_1_month"
CONF_QUARTERLY == "quarterly"
CONF_YEARLY == "yearly"
CONF_CUSTOM_1_YEAR == "custom_1_year"
CONF_DAY_END == "day_end"
CONF_WEEK_END == "week_end"
CONF_MONTH_END == "month_end"
CONF_QUARTER_END == "quarter_end"
CONF_QUARTERS == "quarters"
CONF_YEARS == "years"

PeriodEndTypes ==
    {CONF_DAY_END, CONF_WEEK_END, CONF_MONTH_END, CONF_QUARTER_END,
     CONF_YEAR_END}

IntervalTypes ==
    {CONF_DAILY, CONF_WEEKLY, CONF_CUSTOM_1_WEEK, CONF_BIWEEKLY, CONF_MONTHLY,
     CONF_CUSTOM_1_MONTH, CONF_QUARTERLY, CONF_YEARLY, CONF_CUSTOM_1_YEAR}
        \cup PeriodEndTypes

\* the start dates of the calls are the instants 0 .. MaxStart
MaxStart == 3
\* calls made in a run
MaxScheduleCalls == 2

\* the last instant (23:59) of the day, week, month, quarter and year that
\* begin the epoch, and the first instants
References ==
    (0 .. MaxStart) \cup
    {EndOfDay(0), EndOfDay(6), EndOfDay(DayOf(2024, 1, 31)),
     EndOfDay(DayOf(2024, 3, 31)), EndOfDay(DayOf(2024, 12, 31))}

\* datetime.replace(year, month, day) with the day clamped to the month
replace_clamped(base_date, year, month) ==
    DayOf(year, month, Min2(Ymd(DateOf(base_date)).day, monthrange(year, month)))
        * TicksPerDay + TimeOfDay(base_date)

\* base_date + delta units
add_interval(base_date, interval_unit, delta) ==
    LET t == Ymd(DateOf(base_date))
        multiplier == IF interval_unit = CONF_MONTHS THEN 1 ELSE 3
        total_months == t.month - 1 + delta * multiplier
    IN  IF interval_unit = CONF_DAYS THEN base_date + delta * TicksPerDay
        ELSE IF interval_unit = CONF_WEEKS
        THEN base_date + 7 * delta * TicksPerDay
        ELSE IF interval_unit \in {CONF_MONTHS, CONF_QUARTERS}
        THEN replace_clamped(base_date, t.year + (total_months \div 12),
                             (total_months % 12) + 1)
        ELSE replace_clamped(base_date, t.year + delta, t.month)

\* the result moved to 23:59 of the last day of its period
end_of(result, end_of_period) ==
    LET r == Ymd(DateOf(result))
        last_month_of_quarter == ((r.month - 1) \div 3 + 1) * 3
    IN  IF end_of_period = CONF_DAY_END THEN EndOfDay(DateOf(result))
        ELSE IF end_of_period = CONF_WEEK_END
        THEN EndOfDay(DateOf(result) + ((6 - weekday(result)) % 7))
        ELSE IF end_of_period = CONF_MONTH_END
        THEN EndOfDay(DayOf(r.year, r.month, monthrange(r.year, r.month)))
        ELSE IF end_of_period = CONF_QUARTER_END
        THEN EndOfDay(DayOf(r.year, last_month_of_quarter,
                            monthrange(r.year, last_month_of_quarter)))
        ELSE EndOfDay(DayOf(r.year, 12, 31))

add_interval_to_datetime(base_date, interval_unit, delta, end_of_period) ==
    IF end_of_period = NoId THEN add_interval(base_date, interval_unit, delta)
    ELSE end_of(add_interval(base_date, interval_unit, delta), end_of_period)

calculate_next_interval(interval_type, base_dt) ==
    IF interval_type = CONF_DAILY
    THEN add_interval_to_datetime(base_dt, CONF_DAYS, 1, NoId)
    ELSE IF interval_type \in {CONF_WEEKLY, CONF_CUSTOM_1_WEEK}
    THEN add_interval_to_datetime(base_dt, CONF_WEEKS, 1, NoId)
    ELSE IF interval_type = CONF_BIWEEKLY
    THEN add_interval_to_datetime(base_dt, CONF_WEEKS, 2, NoId)
    ELSE IF interval_type \in {CONF_MONTHLY, CONF_CUSTOM_1_MONTH}
    THEN add_interval_to_datetime(base_dt, CONF_MONTHS, 1, NoId)
    ELSE IF interval_type = CONF_QUARTERLY
    THEN add_interval_to_datetime(base_dt, CONF_QUARTERS, 1, NoId)
    ELSE IF interval_type \in {CONF_YEARLY, CONF_CUSTOM_1_YEAR}
    THEN add_interval_to_datetime(base_dt, CONF_YEARS, 1, NoId)
    ELSE add_interval_to_datetime(base_dt, CONF_DAYS, 0, interval_type)

\* the helper's state after the first calculation and after an iteration of
\* its loop: it returns unless the result has to be advanced
Scheduling(interval_type, require_future, reference_dt, result) ==
    [op |-> "get_next_scheduled_datetime", interval_type |-> interval_type,
     require_future |-> require_future, reference_dt |-> reference_dt,
     result |-> result,
     returned |-> ~ (require_future /\ result <= reference_dt)]

InitSchedule ==
    /\ now = 0
    /\ stop = 0
    /\ kids_data = <<>>
    /\ chores_data = <<>>
    /\ badges_data = <<>>
    /\ rewards_data = <<>>
    /\ achievements_data = <<>>
    /\ challenges_data = <<>>
    /\ pending_chore_approvals = <<>>
    /\ pending_reward_approvals = <<>>
    /\ ledger = [k \in KidIds |-> NewLedger]
    /\ last = NoCall
    /\ budget = MaxScheduleCalls

\* a call is made when the one before has returned
GetNextScheduledDatetime(start_date, interval_type, require_future, reference_dt) ==
    /\ budget > 0
    /\ last.op = "get_next_scheduled_datetime" => last.returned
    /\ last' = Scheduling(interval_type, require_future, reference_dt,
                          calculate_next_interval(interval_type, start_date))
    /\ budget' = budget - 1
    /\ UNCHANGED <<kids_data, chores_data, badges_data, rewards_data,
                   achievements_data, challenges_data,
                   pending_chore_approvals, pending_reward_approvals, ledger,
                   now, stop>>

\* one iteration of: while result_utc <= reference_dt_utc
AdvanceSchedule ==
    /\ last.op = "get_next_scheduled_datetime"
    /\ ~ last.returned
    /\ last' = Scheduling(last.interval_type, last.require_future,
                          last.reference_dt,
                          calculate_next_interval(last.interval_type,
                                                  last.result))
    /\ UNCHANGED <<kids_data, chores_data, badges_data, rewards_data,
                   achievements_data, challenges_data,
                   pending_chore_approvals, pending_reward_approvals, ledger,
                   now, stop, budget>>

NextSchedule ==
    \/ \E start_date \in 0 .. MaxStart, interval_type \in IntervalTypes,
          require_future \in BOOLEAN, reference_dt \in References :
          GetNextScheduledDatetime(start_date, interval_type, require_future,
                                   reference_dt)
    \/ AdvanceSchedule

SpecSchedule == InitSchedule /\ [][NextSchedule]_vars

\* the interpreter goes on to the next iteration of a loop it is in
SpecScheduleFair == SpecSchedule /\ WF_vars(AdvanceSchedule)

(***************************************************************************)
(* SpecStoredChore: the recurrence calculator over a chore as the storage  *)
(* file holds it.  Besides what the flows accept, the chore may have a     *)
(* custom interval of 0 or below, a recurrence frequency outside           *)
(* FREQUENCY_OPTIONS, or applicable days that name no weekday (7 stands    *)
(* for such a name).  The calendar of the model starts in 2024, so a       *)
(* negative interval counts days or weeks.                                 *)
(***************************************************************************)
\* service calls made in a run over the stored chore
MaxStoredChoreCalls == 2

\* a recurrence frequency that FREQUENCY_OPTIONS does not list
FREQUENCY_UNLISTED == "yearly"

\* the weekday filters of DayFilters and one that names no weekday
StoredDayFilters == DayFilters \cup {{7}}

StoredIntervals == {None, 0 - MaxInterval, 0} \cup (1 .. MaxInterval)

InitStoredChore ==
    /\ now = StartDay * TicksPerDay
    /\ stop = now + TicksPerDay
    /\ kids_data = [k \in {"k1"} |-> NewKid]
    /\ \E freq \in {FREQUENCY_DAILY, FREQUENCY_WEEKLY, FREQUENCY_BIWEEKLY,
                     FREQUENCY_MONTHLY, FREQUENCY_CUSTOM, FREQUENCY_UNLISTED},
          interval \in StoredIntervals,
          unit \in {NoId, CONF_DAYS, CONF_WEEKS, CONF_MONTHS},
          behind \in 0 .. MaxBehind,
          days \in StoredDayFilters :
          /\ freq # FREQUENCY_CUSTOM => interval = None /\ unit = NoId
          /\ interval < None => unit # CONF_MONTHS
          /\ chores_data = [c \in {"c1"} |->
                 NewChore(<<"k1">>, FALSE, FALSE, 0, freq, interval, unit,
                          EndOfDay(DateOf(now) - behind), days)]
    /\ badges_data = <<>>
    /\ rewards_data = <<>>
    /\ achievements_data = <<>>
    /\ challenges_data = <<>>
    /\ pending_chore_approvals = <<>>
    /\ pending_reward_approvals = <<>>
    /\ ledger = [k \in KidIds |-> NewLedger]
    /\ last = NoCall
    /\ budget = MaxStoredChoreCalls

NextStoredChore ==
    \/ ApproveChore("k1", "c1", None)
    \/ SkipChoreDueDate("c1")
    \/ ResetOverdueChores("c1")
    \/ Tick

SpecStoredChore == InitStoredChore /\ [][NextStoredChore]_vars

(***************************************************************************)
(* SpecAssignees: a recurring chore of two kids over the midnight that     *)
(* opens a day, a week and a month at once.  The chore, shared or not, has *)
(* any recurrence and is due at 23:59 of Sunday 2024-06-30, the day the    *)
(* run starts; the run lasts MaxAssigneeDays.                              *)
(***************************************************************************)
\* service calls made in a run of the two assignees
MaxAssigneeCalls == 3
\* days a run of the two assignees lasts
MaxAssigneeDays == 2

\* Sunday 2024-06-30: the next day is a Monday and the first of a month
AssigneeStartDay == DayOf(2024, 6, 30)

InitAssignees ==
    /\ now = AssigneeStartDay * TicksPerDay
    /\ stop = now + MaxAssigneeDays * TicksPerDay
    /\ kids_data = [k \in KidIds |-> NewKid]
    /\ \E shared \in BOOLEAN,
          freq \in {FREQUENCY_DAILY, FREQUENCY_WEEKLY, FREQUENCY_BIWEEKLY,
                    FREQUENCY_MONTHLY, FREQUENCY_CUSTOM} :
          chores_data = [c \in {"c1"} |->
              NewChore(<<"k1", "k2">>, shared, FALSE, 0, freq,
                       IF freq = FREQUENCY_CUSTOM THEN 1 ELSE None,
                       IF freq = FREQUENCY_CUSTOM THEN CONF_DAYS ELSE NoId,
                       EndOfDay(AssigneeStartDay), {})]
    /\ badges_data = <<>>
    /\ rewards_data = <<>>
    /\ achievements_data = <<>>
    /\ challenges_data = <<>>
    /\ pending_chore_approvals = <<>>
    /\ pending_reward_approvals = <<>>
    /\ ledger = [k \in KidIds |-> NewLedger]
    /\ last = NoCall
    /\ budget = MaxAssigneeCalls

NextAssignees ==
    \/ \E k \in KidIds : ClaimChore(k, "c1")
    \/ \E k \in KidIds : ApproveChore(k, "c1", None)
    \/ PeriodicUpdate
    \/ Tick

SpecAssignees == InitAssignees /\ [][NextAssignees]_vars

\* the clock runs and the midnight timer fires
SpecAssigneesFair == SpecAssignees /\ WF_now(ClockAdvances)

(***************************************************************************)
(* SpecRedeem: the redemption of rewards.  Kid k1, who starts without      *)
(* points, a chore c1 worth a point that may be approved any number of     *)
(* times, a reward r1 that costs 0 to MaxCost points, and a daily badge b1 *)
(* for one chore a day whose perk is 0 or 1 point, the reward r1, or both. *)
(* Rewards are approved from the service (no notification id) or from the  *)
(* action of a notification (with its id).  The run is Sunday 2024-01-07.  *)
(***************************************************************************)
\* the reward costs 0 .. MaxCost points
MaxCost == 2
\* service calls made in a run of the redemptions
MaxRedeemCalls == 5

InitRedeem ==
    /\ now = StartDay * TicksPerDay
    /\ stop = now + TicksPerDay
    /\ kids_data = [k \in {"k1"} |-> NewKid]
    /\ chores_data = [c \in {"c1"} |->
          NewChore(<<"k1">>, FALSE, TRUE, 1, FREQUENCY_NONE, None, NoId,
                   None, {})]
    /\ \E award_points \in {DEFAULT_ZERO, 1},
          award_mode \in {DEFAULT_BADGE_AWARD_MODE, DATA_BADGE_AWARD_POINTS,
                          DATA_BADGE_AWARD_REWARD,
                          DATA_BADGE_AWARD_POINTS_REWARD} :
          badges_data = [b \in {"b1"} |->
              [NewDailyBadge(1, <<"k1">>, DEFAULT_KID_POINTS_MULTIPLIER,
                             award_points)
                  EXCEPT !.award_mode = award_mode, !.award_reward = "r1"]]
    /\ \E cost \in 0 .. MaxCost :
          rewards_data = [r \in RewardIds |-> [cost |-> cost]]
    /\ achievements_data = <<>>
    /\ challenges_data = <<>>
    /\ pending_chore_approvals = <<>>
    /\ pending_reward_approvals = <<>>
    /\ ledger = [k \in KidIds |-> NewLedger]
    /\ last = NoCall
    /\ budget = MaxRedeemCalls

NextRedeem ==
    \/ ApproveChore("k1", "c1", None)
    \/ RedeemReward("k1", "r1")
    \/ \E notif_id \in NotifIds : ApproveRewardNotified("k1", "r1", notif_id)
    \/ DisapproveReward("k1", "r1")
    \/ ApplyBonus("k1", "bonus1")
    \/ ApplyPenalty("k1", "penalty1")
    \/ Tick

SpecRedeem == InitRedeem /\ [][NextRedeem]_vars

(***************************************************************************)
(* Properties of the chore lifecycle (Spec)                                *)
(***************************************************************************)
\* C1: after any sequence of operations (claim, approve, disapprove, overdue
\* sweep, reschedule, periodic resets, manual state override, catalog
\* updates) no chore id is in both the claimed set and the approved set of
\* the same kid.
C1_ClaimedApprovedDisjoint ==
    \A k \in DOMAIN kids_data :
        kids_data[k].claimed_chores \cap kids_data[k].approved_chores = {}

\* a kid whose claim was pending has just been approved
C1_Witness ==
    /\ last.op = "approve_chore" /\ last.ok
    /\ last.kid \in DOMAIN kids_data
    /\ last.chore \in kids_data[last.kid].approved_chores
    /\ last.claimed
    /\ <<last.kid, last.chore>> \notin SeqToSet(pending_chore_approvals)

\* the per-kid states of the assignees of a chore, in the order of the list
AssigneeStates(c) ==
    [i \in 1..Len(chores_data[c].assigned_kids) |->
        kid_chore_state(kids_data, chores_data[c].assigned_kids[i], c)]

\* C3: for a chore with exactly one assignee the stored global state always
\* equals that kid's own state for the chore, after any sequence of
\* operations (a disapprove for a kid who is not the assignee, a catalog
\* update of the chore and a change of the assignee list included).
C3_SingleAssigneeState ==
    \A c \in DOMAIN chores_data :
        Len(chores_data[c].assigned_kids) = 1
            => chores_data[c].state = AssigneeStates(c)[1]

\* C4: for a chore with several assignees who are all in the same per-kid
\* state the stored global state equals that state at all times; it is the
\* output of the reducer and never a value set by hand.
C4_UniformState ==
    \A c \in DOMAIN chores_data :
        /\ Len(chores_data[c].assigned_kids) > 1
        /\ \A i \in DOMAIN AssigneeStates(c) :
               AssigneeStates(c)[i] = AssigneeStates(c)[1]
        => chores_data[c].state = AssigneeStates(c)[1]

\* C5: when the assignees of a multi-assignee chore are not all in the same
\* state, the global state the reducer computes is, for a shared chore,
\* Overdue if any assignee is overdue, else ApprovedInPart if any is
\* approved, else ClaimedInPart if any has claimed, else Unknown; for a
\* chore that is not shared it is Independent.
C5_MixedStates ==
    /\ last.op \in {"claim_chore", "approve_chore", "disapprove_chore"}
    /\ last.ok
    /\ last.chore \in DOMAIN chores_data
    /\ Len(chores_data[last.chore].assigned_kids) > 1
    /\ \E i \in DOMAIN AssigneeStates(last.chore) :
           AssigneeStates(last.chore)[i] # AssigneeStates(last.chore)[1]
    => LET any(st) == \E i \in DOMAIN AssigneeStates(last.chore) :
                          AssigneeStates(last.chore)[i] = st
       IN  chores_data[last.chore].state =
               IF ~chores_data[last.chore].shared_chore
               THEN CHORE_STATE_INDEPENDENT
               ELSE IF any(CHORE_STATE_OVERDUE) THEN CHORE_STATE_OVERDUE
               ELSE IF any(CHORE_STATE_APPROVED)
               THEN CHORE_STATE_APPROVED_IN_PART
               ELSE IF any(CHORE_STATE_CLAIMED)
               THEN CHORE_STATE_CLAIMED_IN_PART
               ELSE CHORE_STATE_UNKNOWN

\* one assignee of a shared chore has claimed it while the other is overdue
C5_Witness ==
    /\ last.op = "claim_chore" /\ last.ok
    /\ last.chore \in DOMAIN chores_data
    /\ chores_data[last.chore].shared_chore
    /\ Len(chores_data[last.chore].assigned_kids) > 1
    /\ \E i, j \in DOMAIN AssigneeStates(last.chore) :
           /\ AssigneeStates(last.chore)[i] = CHORE_STATE_CLAIMED
           /\ AssigneeStates(last.chore)[j] = CHORE_STATE_OVERDUE

\* C12: after every overdue sweep, for every chore with a due date and
\* every kid assigned to it, the kid is overdue for the chore exactly when
\* the due date has passed and the kid has neither claimed it nor been
\* approved for it; no assignee stays overdue for a chore whose due date
\* lies ahead or is absent.
C12_OverdueAfterSweep ==
    last.op = "check_overdue_chores"
    => \A c \in DOMAIN chores_data :
           \A k \in SeqToSet(chores_data[c].assigned_kids) \cap DOMAIN kids_data :
               c \in kids_data[k].overdue_chores
                   <=> /\ chores_data[c].due_date # None
                       /\ chores_data[c].due_date <= now
                       /\ c \notin kids_data[k].claimed_chores
                       /\ c \notin kids_data[k].approved_chores

\* C13: an overdue notification for a kid and a chore is never repeated
\* within the cooldown (24 hours) of the one before for that pair, unless
\* the due date of the chore has advanced since the one before.
C13_NoRepeatInCooldown ==
    \A k \in KidIds : \A c \in ChoreIds : ~ledger[k].notices[c].repeat

\* chore c has a due date and a period, so that a reschedule stores a new
\* due date
Reschedulable(c) ==
    /\ c \in DOMAIN chores_data
    /\ chores_data[c].due_date # None
    /\ chores_data[c].recurring_frequency # FREQUENCY_NONE
    /\ chores_data[c].recurring_frequency = FREQUENCY_CUSTOM
          => /\ chores_data[c].custom_interval # None
             /\ chores_data[c].custom_interval_unit \in
                    {CONF_DAYS, CONF_WEEKS, CONF_MONTHS}

\* chore c recurs, is approved as a whole or in part, and its due date has
\* passed; the run lasts until the next midnight at least
CompletedPastDue(c) ==
    /\ c \in DOMAIN chores_data
    /\ chores_data[c].recurring_frequency # FREQUENCY_NONE
    /\ chores_data[c].due_date # None
    /\ chores_data[c].due_date < now
    /\ chores_data[c].state \in
           {CHORE_STATE_APPROVED, CHORE_STATE_APPROVED_IN_PART}
    /\ now < stop

\* the due date of chore c is ahead and every assignee is pending
Renewed(c) ==
    /\ c \in DOMAIN chores_data
    /\ chores_data[c].due_date # None
    /\ chores_data[c].due_date > now
    /\ chores_data[c].state = CHORE_STATE_PENDING
    /\ \A k \in SeqToSet(chores_data[c].assigned_kids) \cap DOMAIN kids_data :
           /\ c \notin kids_data[k].claimed_chores
           /\ c \notin kids_data[k].approved_chores
           /\ c \notin kids_data[k].overdue_chores

PeriodElapsed(frequency, t) ==
    \/ frequency = FREQUENCY_DAILY
    \/ frequency = FREQUENCY_WEEKLY /\ weekday(t) = DEFAULT_WEEKLY_RESET_DAY
    \/ /\ frequency = FREQUENCY_MONTHLY
       /\ monthly_reset_due(Ymd(DateOf(t)))

\* in the snapshot d, chore c is pending for every assigned kid and as a
\* whole
PendingIn(d, c) ==
    /\ d.chores[c].state = CHORE_STATE_PENDING
    /\ \A k \in SeqToSet(d.chores[c].assigned_kids) \cap DOMAIN d.kids :
           /\ c \notin d.kids[k].claimed_chores
           /\ c \notin d.kids[k].approved_chores
           /\ c \notin d.kids[k].overdue_chores

\* the counter resets of the midnight at t leave the snapshot d behind:
\* every chore whose period has elapsed is pending, and of the pending
\* approvals there were, those of these chores are gone and no others
BoundaryReset(d, t) ==
    /\ \A c \in DOMAIN chores_data :
           PeriodElapsed(chores_data[c].recurring_frequency, t)
               => PendingIn(d, c)
    /\ \A ap \in SeqToSet(pending_chore_approvals) :
           ap \in SeqToSet(d.pca)
               <=> ~(/\ ap[2] \in DOMAIN chores_data
                     /\ PeriodElapsed(
                            chores_data[ap[2]].recurring_frequency, t))

\* C16: at each daily, weekly and monthly boundary, the counter reset also
\* resets to pending every chore whose recurrence matches the elapsed
\* period (daily chores at the daily boundary, weekly at the weekly,
\* monthly at the monthly) and purges the pending approvals of exactly
\* those chores.
C16_BoundaryResetsMatching ==
    [][last'.op = "reset_all_chore_counts"
          => BoundaryReset(
                 handle_recurring_chore_resets([Cur EXCEPT !.now = now']),
                 now')]_vars

\* the step raises the balance of kid k by delta, and raises the points
\* earned today, this week and this month by as much
EarnedRaised(k, delta) ==
    /\ kids_data'[k].points_earned_today =
           kids_data[k].points_earned_today + delta
    /\ kids_data'[k].points_earned_weekly =
           kids_data[k].points_earned_weekly + delta
    /\ kids_data'[k].points_earned_monthly =
           kids_data[k].points_earned_monthly + delta

\* in the kid record after, the balance is new_points and the points
\* earned today, this week, this month and the cumulative earned points
\* are those of the kid record before raised by the delta
DeltaReflected(before, after, new_points) ==
    /\ after.points = new_points
    /\ after.points_earned_today =
           before.points_earned_today + (new_points - before.points)
    /\ after.points_earned_weekly =
           before.points_earned_weekly + (new_points - before.points)
    /\ after.points_earned_monthly =
           before.points_earned_monthly + (new_points - before.points)
    /\ after.cumulative_earned_points =
           before.cumulative_earned_points + (new_points - before.points)
    /\ after.max_points_ever >= new_points

C18_RefusalChangesNothing ==
    [][/\ last'.op \in {"claim_chore", "approve_chore", "disapprove_chore",
                        "redeem_reward", "approve_reward", "apply_penalty",
                        "apply_bonus", "skip_chore_due_date",
                        "reset_overdue_chores", "set_chore_due_date"}
       /\ ~last'.ok
       => UNCHANGED <<kids_data, chores_data, badges_data, rewards_data,
                      achievements_data, challenges_data,
                      pending_chore_approvals, pending_reward_approvals>>]_vars

\* a reward approval has just been refused for want of points, after the
\* kid had earned a point and spent it, and the kid has one reward redeemed
C18_Witness ==
    /\ last.op = "approve_reward" /\ ~last.ok
    /\ last.kid \in DOMAIN kids_data
    /\ kids_data[last.kid].points < rewards_data["r1"].cost
    /\ kids_data[last.kid].redeemed_rewards["r1"] = 1

\* C19: a redemption of a reward whose cost exceeds the points of the kid
\* fails and leaves the points of the kid unchanged.
C19_RedeemNeedsBalance ==
    [][\A k \in DOMAIN kids_data :
          /\ last'.op = "redeem_reward"
          /\ last'.kid = k
          /\ rewards_data["r1"].cost > kids_data[k].points
          => /\ ~last'.ok
             /\ kids_data'[k].points = kids_data[k].points
             /\ kids_data'[k].pending_rewards = kids_data[k].pending_rewards
             /\ pending_reward_approvals' = pending_reward_approvals]_vars

\* a redemption has just been refused: the kid, who had earned a point and
\* spent it, has fewer points than the reward costs, and no redemption
\* awaits approval
C19_Witness ==
    /\ last.op = "redeem_reward" /\ ~last.ok
    /\ last.kid \in DOMAIN kids_data
    /\ kids_data[last.kid].points < rewards_data["r1"].cost
    /\ kids_data[last.kid].max_points_ever >= rewards_data["r1"].cost
    /\ pending_reward_approvals = <<>>

\* C20: a claim fails whenever the kid has already claimed the chore or
\* been approved for it and multiple claims per day are off for the chore.
C20_ClaimOnce ==
    [][\A k \in DOMAIN kids_data : \A c \in DOMAIN chores_data :
          /\ last'.op = "claim_chore"
          /\ last'.kid = k
          /\ last'.chore = c
          /\ ~chores_data[c].allow_multiple_claims_per_day
          /\ \/ c \in kids_data[k].claimed_chores
             \/ c \in kids_data[k].approved_chores
          => /\ ~last'.ok
             /\ kids_data' = kids_data
             /\ pending_chore_approvals' = pending_chore_approvals]_vars

\* a claim has just been refused because the kid is approved for the chore
C20_Witness ==
    /\ last.op = "claim_chore" /\ ~last.ok
    /\ last.kid \in DOMAIN kids_data
    /\ last.chore \in DOMAIN chores_data
    /\ ~chores_data[last.chore].allow_multiple_claims_per_day
    /\ last.chore \in kids_data[last.kid].approved_chores
    /\ last.chore \notin kids_data[last.kid].claimed_chores

\* the call just made is a successful skip or reset command on chore c
RescheduleCommand(c) ==
    /\ last'.op \in {"skip_chore_due_date", "reset_overdue_chores"}
    /\ last'.ok
    /\ last'.chore = c
    /\ c \in DOMAIN chores_data

\* the midnight callback has just run while chore c recurred, was approved
\* and its due date had passed
RescheduledAtMidnight(c) ==
    /\ last'.op = "reset_all_chore_counts"
    /\ c \in DOMAIN chores_data
    /\ chores_data[c].recurring_frequency # FREQUENCY_NONE
    /\ chores_data[c].due_date # None
    /\ chores_data[c].due_date < now'
    /\ chores_data[c].state \in
           {CHORE_STATE_APPROVED, CHORE_STATE_APPROVED_IN_PART}

\* chore c is pending for every assigned kid and as a whole
BackToPending(c) ==
    /\ c \in DOMAIN chores_data'
    /\ chores_data'[c].state = CHORE_STATE_PENDING
    /\ \A k \in SeqToSet(chores_data'[c].assigned_kids) \cap DOMAIN kids_data' :
           /\ c \notin kids_data'[k].claimed_chores
           /\ c \notin kids_data'[k].approved_chores
           /\ c \notin kids_data'[k].overdue_chores

C2_BalanceIsSumOfDeltas ==
    \A k \in DOMAIN kids_data : kids_data[k].points = ledger[k].deltas

\* C8: being approved for the same chore on two consecutive calendar days
\* increments the kid's streak for that chore by 1; skipping a day resets
\* it to 1; a second approval on the same day leaves the streak unchanged.
C8_StreakStep ==
    [][ last'.op = "approve_chore" /\ last'.ok
        => LET before == kids_data[last'.kid].chore_streaks[last'.chore]
               after == kids_data'[last'.kid].chore_streaks[last'.chore]
               today == DateOf(now)
           IN  /\ before.last_date # None /\ before.last_date = today - 1
                    => after.current_streak = before.current_streak + 1
               /\ before.last_date # None /\ before.last_date < today - 1
                    => after.current_streak = 1
               /\ before.last_date # None /\ before.last_date = today
                    => after.current_streak = before.current_streak ]_vars

\* the kid was approved yesterday and has been approved again today
C8_Witness ==
    /\ last.op = "approve_chore" /\ last.ok
    /\ kids_data[last.kid].chore_streaks[last.chore].current_streak = 2
    /\ kids_data[last.kid].chore_streaks[last.chore].last_date = DateOf(now)

\* C9: a kid's earned_today, earned_week and earned_month counters never
\* diverge from the sum of the balance deltas applied within the current
\* day, week and month, after any sequence of balance changes and daily,
\* weekly and monthly boundary resets.
C9_EarnedCounters ==
    \A k \in DOMAIN kids_data :
        /\ kids_data[k].points_earned_today = ledger[k].today
        /\ kids_data[k].points_earned_weekly = ledger[k].week
        /\ kids_data[k].points_earned_monthly = ledger[k].month

\* C10: approve(kid, chore) requires a pending state: an approval succeeds
\* and awards points only if the kid has a claim awaiting approval for
\* that chore; an approve for a kid who has not claimed it is rejected.
C10_ApproveNeedsClaim ==
    last.op = "approve_chore" /\ last.ok => last.claimed /\ last.pending

\* C10 (amended): approve(kid, chore) is rejected exactly when the chore or
\* the kid is unknown, the chore is not assigned to the kid, or the chore
\* was already approved for the kid and multiple claims per day are off;
\* otherwise it succeeds and awards the points, whether or not the kid has
\* a claim awaiting approval.
C10_ApproveGuard ==
    [][ last'.op = "approve_chore"
        => LET k == last'.kid
               c == last'.chore
               accepted ==
                   /\ c \in DOMAIN chores_data
                   /\ k \in SeqToSet(chores_data[c].assigned_kids)
                   /\ k \in DOMAIN kids_data
                   /\ \/ chores_data[c].allow_multiple_claims_per_day
                      \/ c \notin kids_data[k].approved_chores
           IN  /\ last'.ok <=> accepted
               /\ accepted =>
                     /\ kids_data'[k].points = kids_data[k].points
                            + chores_data[c].default_points
                                * kids_data[k].points_multiplier
                     /\ c \in kids_data'[k].approved_chores
               /\ ~accepted => kids_data' = kids_data ]_vars

\* a kid with no claim awaiting approval has been approved and holds the
\* points
C10_Witness ==
    /\ last.op = "approve_chore" /\ last.ok
    /\ ~last.claimed /\ ~last.pending
    /\ kids_data[last.kid].points > 0
    /\ last.chore \in kids_data[last.kid].approved_chores

(***************************************************************************)
(* Properties of the recurrence calculator (SpecResched)                   *)
(***************************************************************************)
\* the call just made is a successful skip or reset command on chore c,
\* whose due date was not after now
RescheduledPast(c) ==
    /\ last'.op \in {"skip_chore_due_date", "reset_overdue_chores"}
    /\ last'.ok
    /\ last'.chore = c
    /\ c \in DOMAIN chores_data
    /\ chores_data[c].due_date # None
    /\ chores_data[c].due_date <= now

\* the midnight callback has just run while chore c was approved and its
\* due date had passed
RescheduledOnCompletion(c) ==
    /\ last'.op = "reset_all_chore_counts"
    /\ c \in DOMAIN chores_data
    /\ chores_data[c].due_date # None
    /\ chores_data[c].due_date < now'
    /\ chores_data[c].state \in
           {CHORE_STATE_APPROVED, CHORE_STATE_APPROVED_IN_PART}

\* the new due date of chore c is after now and on an applicable weekday
AdvancedDueDate(c) ==
    /\ c \in DOMAIN chores_data'
    /\ chores_data'[c].due_date # None
    /\ chores_data'[c].due_date > now'
    /\ chores_data'[c].applicable_days # {}
          => weekday(chores_data'[c].due_date) \in chores_data'[c].applicable_days

\* the chore recurs with a period the calculator can add
HasPeriod(chore_info) ==
    \/ chore_info.recurring_frequency \in
           {FREQUENCY_DAILY, FREQUENCY_WEEKLY, FREQUENCY_BIWEEKLY,
            FREQUENCY_MONTHLY}
    \/ /\ chore_info.recurring_frequency = FREQUENCY_CUSTOM
       /\ chore_info.custom_interval # None
       /\ chore_info.custom_interval_unit \in
              {CONF_DAYS, CONF_WEEKS, CONF_MONTHS}

HeldBadges(badges, kid_id) ==
    {b \in DOMAIN badges : /\ badges[b].type = BADGE_TYPE_CUMULATIVE
                           /\ kid_id \in badges[b].earned_by}

\* the highest of the badges in S, the kid's current tier
TopBadge(badges, S) ==
    CHOOSE b \in S : \A c \in S :
        badges[c].threshold_value <= badges[b].threshold_value

\* the kid holds badges, the midnight reset runs after the grace period of
\* the kid's current tier has expired, and the points of the cycle are
\* below what the tier asks for
DowngradeDue(kid_id) ==
    /\ last'.op = "reset_all_chore_counts"
    /\ kid_id \in DOMAIN kids_data
    /\ HeldBadges(badges_data, kid_id) # {}
    /\ LET current ==
               badges_data[TopBadge(badges_data,
                                    HeldBadges(badges_data, kid_id))]
       IN  /\ now' >= expected_reset_of(current, Ymd(DateOf(now')), now')
                          + current.reset_grace_period * TicksPerDay
           /\ kids_data[kid_id].cumulative_earned_points
                  < current.maintenance_rules

\* the badges the kid holds after stepping one rung down: the current tier
\* is gone, the badge immediately below it is held, every other is kept
OneRungDown(kid_id) ==
    LET held == HeldBadges(badges_data, kid_id)
        current == TopBadge(badges_data, held)
        lower == get_next_lower_badge(Cur, current)
    IN  (held \ {current}) \cup (IF lower = NoId THEN {} ELSE {lower})

\* C7: a downgrade moves the kid exactly one rung down the ladder: when
\* the cycle points are below the maintenance requirement of the current
\* tier after its grace period has expired, the kid ends the cycle holding
\* the badge immediately below the current one and loses no other tier.
C7_DowngradeOneRung ==
    [][\A k \in KidIds :
          DowngradeDue(k) => HeldBadges(badges_data', k) = OneRungDown(k)]_vars

(***************************************************************************)
(* Properties of the awards (SpecAward)                                    *)
(***************************************************************************)
\* C11: a successful approve adds exactly the override, when one is given,
\* or else the chore's default points, times the kid's multiplier, to the
\* kid's balance.
C11_AwardedPoints ==
    [][ last'.op = "approve_chore" /\ last'.ok
        => kids_data'[last'.kid].points =
               kids_data[last'.kid].points
                   + (IF last'.arg # None
                      THEN last'.arg
                      ELSE chores_data[last'.chore].default_points)
                        * kids_data[last'.kid].points_multiplier ]_vars

\* a kid whose multiplier the badge had raised has been approved with the
\* largest override
C11_Witness ==
    /\ last.op = "approve_chore" /\ last.ok
    /\ last.arg = MaxOverride
    /\ kids_data["k1"].completed_chores_total = 2
    /\ kids_data["k1"].points_multiplier = MaxMultiplier
    /\ kids_data["k1"].points >= 1 + MaxOverride * MaxMultiplier

(***************************************************************************)
(* Properties of the achievements and challenges (SpecAchieve)             *)
(***************************************************************************)
\* whether the item (an achievement or a challenge) is awarded to the kid
Awarded(achievements, challenges, item_id, k) ==
    \/ /\ item_id \in DOMAIN achievements
       /\ achievements[item_id].progress[k].present
       /\ achievements[item_id].progress[k].awarded
    \/ /\ item_id \in DOMAIN challenges
       /\ challenges[item_id].progress[k].present
       /\ challenges[item_id].progress[k].awarded

\* C21: achievements and challenges are one-shot per kid: an item awarded
\* to a kid stays awarded and its reward points are not granted again, so
\* at any time the points of an item have been granted once to the kids it
\* is awarded to and never to the others.
C21_AwardedOnce ==
    [][\A k \in KidIds : \A item_id \in AchievementIds \cup ChallengeIds :
          /\ Awarded(achievements_data, challenges_data, item_id, k)
                => /\ Awarded(achievements_data', challenges_data', item_id, k)
                   /\ ledger'[k].granted[item_id] = ledger[k].granted[item_id]
          /\ ledger'[k].granted[item_id] =
                IF Awarded(achievements_data', challenges_data', item_id, k)
                THEN 1 ELSE 0]_vars

\* the streak achievement of target 3 was awarded on the third day and the
\* chore has just been approved on a fourth consecutive day
C21_Witness ==
    /\ last.op = "approve_chore" /\ last.ok /\ last.chore = "c1"
    /\ DateOf(now) = StartDay + 3
    /\ achievements_data["a1"].target_value = 3
    /\ achievements_data["a1"].progress[last.kid].awarded
    /\ achievements_data["a1"].progress[last.kid].current_streak = 4
    /\ ledger[last.kid].granted["a1"] = 1
    /\ kids_data[last.kid].completed_chores_total = 4

\* the streak a progress record should show after the designated chore is
\* completed on the day today
StreakAfterCompletion(progress, today) ==
    IF progress.last_streak_date # None /\ progress.last_streak_date = today
    THEN progress.current_streak
    ELSE IF progress.last_streak_date # None
            /\ progress.last_streak_date = today - 1
    THEN progress.current_streak + 1
    ELSE 1

\* C22: the streak of a kid in a streak achievement counts the consecutive
\* days on which the kid completed the designated chore: an approval of
\* that chore for the kid leaves the streak as it is when the day is
\* already counted, adds one when the chore was completed yesterday and
\* sets it to 1 otherwise; nothing else (another chore, a bonus, a
\* penalty, the passing of time) changes the streak.
C22_StreakFollowsChore ==
    [][\A a \in DOMAIN achievements_data : \A k \in KidIds :
          achievements_data[a].type = ACHIEVEMENT_TYPE_STREAK
          => IF /\ last'.op = "approve_chore" /\ last'.ok /\ last'.kid = k
                /\ last'.chore = achievements_data[a].selected_chore_id
             THEN achievements_data'[a].progress[k].current_streak =
                      StreakAfterCompletion(achievements_data[a].progress[k],
                                            DateOf(now))
             ELSE /\ achievements_data'[a].progress[k].current_streak =
                        achievements_data[a].progress[k].current_streak
                  /\ achievements_data'[a].progress[k].last_streak_date =
                        achievements_data[a].progress[k].last_streak_date]_vars

(***************************************************************************)
(* Properties of the badges (SpecBadge, SpecTier, SpecDaily)               *)
(***************************************************************************)
\* the points of a kid that count toward the thresholds of the cumulative
\* badges: the baseline plus the points of the cycle
CountedTotal(kid_info) ==
    (IF kid_info.cumulative_badge_baseline = None THEN DEFAULT_ZERO
     ELSE kid_info.cumulative_badge_baseline)
        + kid_info.cumulative_earned_points

\* the kid had a tier on record and has another one now
Upgraded(before, after) ==
    /\ before.pre_reset_badge # NoId
    /\ after.pre_reset_badge # before.pre_reset_badge

\* what update_kid_points leaves of the kid when the bonus is applied
AfterBonus(k) ==
    update_kid_points_now(Cur, k,
        kids_data[k].points + bonuses_data["bonus1"].points).kids[k]

\* C23: across an upgrade of the cumulative badge the points counted
\* toward the thresholds (baseline plus cycle points) are preserved: when
\* a bonus upgrades the kid, the total counted once update_kid_points has
\* returned is the total counted before the call plus the bonus, so no
\* point is lost or counted twice.
C23_UpgradeKeepsTotal ==
    [][/\ last'.op = "apply_bonus" /\ last'.ok
       /\ Upgraded(kids_data[last'.kid], AfterBonus(last'.kid))
       => CountedTotal(AfterBonus(last'.kid)) =
              CountedTotal(kids_data[last'.kid])
                  + bonuses_data["bonus1"].points]_vars

\* the highest threshold among the cumulative badges that the total reaches
\* (0 when it reaches none)
HighestWithin(badges, total) ==
    LET reached == {badges[b].threshold_value : b \in
                      {c \in DOMAIN badges :
                          /\ badges[c].type = BADGE_TYPE_CUMULATIVE
                          /\ badges[c].threshold_value <= total}}
    IN  IF reached = {} THEN 0
        ELSE CHOOSE t \in reached : \A u \in reached : u <= t

\* the kid holds a badge and the approval that has just been made changed
\* the tier on record or added a badge to those held
TierRaised(k) ==
    /\ last'.op = "approve_chore" /\ last'.ok /\ last'.kid = k
    /\ HeldBadges(badges_data, k) # {}
    /\ \/ kids_data'[k].pre_reset_badge # kids_data[k].pre_reset_badge
       \/ HeldBadges(badges_data', k) \ HeldBadges(badges_data, k) # {}

\* C24: on an upgrade the kid's tier is the badge with the highest
\* threshold within baseline + cycle points, reached in one step even when
\* rungs are skipped: after an approval that raises the tier of a kid, the
\* highest badge the kid holds is the highest one whose threshold the
\* total reaches (the total counted after the call, or the total counted
\* before it plus the points awarded).
C24_UpgradeToHighest ==
    [][\A k \in DOMAIN kids_data :
          TierRaised(k)
          => /\ HeldBadges(badges_data', k) # {}
             /\ badges_data'[TopBadge(badges_data', HeldBadges(badges_data', k))]
                    .threshold_value
                 \in { HighestWithin(badges_data', CountedTotal(kids_data'[k])),
                       HighestWithin(badges_data',
                           CountedTotal(kids_data[k])
                               + (kids_data'[k].points - kids_data[k].points)) }
       ]_vars

\* the snapshot update_kid_points leaves when the call that has just been
\* made (a bonus or a penalty) returns, before the reset of the cumulative
\* badges runs
BeforeReset ==
    update_kid_points_now(Cur, last'.kid,
        kids_data[last'.kid].points
            + (IF last'.op = "apply_bonus" THEN bonuses_data["bonus1"].points
               ELSE penalties_data["penalty1"].points))

\* the grace period of the badge has expired at the instant t
GraceExpired(badge, t) ==
    t >= expected_reset_of(badge, Ymd(DateOf(t)), t)
            + badge.reset_grace_period * TicksPerDay

\* what the reset of badge b should leave of kid k, who held the badge in
\* the snapshot d with the grace period expired: no cycle points; the badge
\* kept and the cycle points rolled into the baseline when they met the
\* maintenance requirement, the badge lost otherwise
ResetOutcome(d, k, b) ==
    LET before == d.kids[k]
        baseline == IF before.cumulative_badge_baseline = None
                    THEN DEFAULT_ZERO ELSE before.cumulative_badge_baseline
    IN  /\ kids_data'[k].cumulative_earned_points = DEFAULT_ZERO
        /\ IF before.cumulative_earned_points >= d.badges[b].maintenance_rules
           THEN /\ k \in badges_data'[b].earned_by
                /\ kids_data'[k].cumulative_badge_baseline =
                       baseline + before.cumulative_earned_points
           ELSE k \notin badges_data'[b].earned_by

\* C25: the periodic reset of a cumulative badge whose grace period has
\* expired zeroes the cycle points of the kid who holds it; when they met
\* the maintenance requirement the kid keeps the badge and the points are
\* rolled into the baseline, otherwise the points are forfeited and the
\* kid loses the badge.
C25_ResetRollsOrForfeits ==
    [][/\ last'.op \in {"apply_bonus", "apply_penalty"} /\ last'.ok
       => \A b \in DOMAIN badges_data :
             /\ last'.kid \in BeforeReset.badges[b].earned_by
             /\ GraceExpired(badges_data[b], now)
             => ResetOutcome(BeforeReset, last'.kid, b)]_vars

\* the highest multiplier of the cumulative badges the kid holds, the
\* multiplier of a kid without a badge when there is none
HeldMultiplier(badges, k) ==
    LET mults == {badges[b].points_multiplier : b \in HeldBadges(badges, k)}
    IN  IF mults = {} THEN DEFAULT_KID_POINTS_MULTIPLIER
        ELSE CHOOSE m \in mults : \A n \in mults : n <= m

\* C26: at all times the points multiplier of a kid is the highest
\* multiplier of the cumulative badges the kid holds, and 1 when the kid
\* holds none: also after a badge was lost and after a badge that is not
\* cumulative was earned.
C26_MultiplierOfHeldBadges ==
    \A k \in DOMAIN kids_data :
        kids_data[k].points_multiplier = HeldMultiplier(badges_data, k)

\* the daily badges of kid k
DailyBadges(badges, k) ==
    {b \in DOMAIN badges : /\ badges[b].type = BADGE_TYPE_DAILY
                           /\ k \in SeqToSet(badges[b].assigned_kids)}

\* C27: as soon as an approval has brought the number of chores the kid
\* completed today to the threshold of a daily badge, the kid has earned
\* the badge, whatever the points of the approval.
C27_DailyBadgeAtThreshold ==
    [][last'.op = "approve_chore" /\ last'.ok
       => \A b \in DailyBadges(badges_data', last'.kid) :
             kids_data'[last'.kid].completed_chores_today
                 >= badges_data'[b].daily_threshold
             => last'.kid \in badges_data'[b].earned_by]_vars

\* the total achievements
TotalAchievements(achievements) ==
    {a \in DOMAIN achievements :
        achievements[a].type = ACHIEVEMENT_TYPE_TOTAL}

\* C28: the baseline of a total achievement is the number of chores the kid
\* had completed when the achievement was created (none, in the runs of
\* SpecAchieve), and the achievement is awarded once the kid has completed
\* the target number of chores more: on the approval that brings the
\* lifetime count to the baseline plus the target.
C28_TotalAwardedAtTarget ==
    \A a \in TotalAchievements(achievements_data) :
        \A k \in SeqToSet(achievements_data[a].assigned_kids) \cap
                  DOMAIN kids_data :
            /\ achievements_data[a].progress[k].present
               => achievements_data[a].progress[k].baseline =
                      NewKid.completed_chores_total
            /\ kids_data[k].completed_chores_total >=
                   NewKid.completed_chores_total
                       + achievements_data[a].target_value
               => Awarded(achievements_data, challenges_data, a, k)


(***************************************************************************)
(* Properties of the reconciliation of the catalog (SpecCatalog)           *)
(***************************************************************************)
\* no assignment list of the snapshot names a kid that does not exist
AssignmentsValid(chores, achievements, challenges, kid_ids) ==
    /\ \A c \in DOMAIN chores :
          SeqToSet(chores[c].assigned_kids) \subseteq kid_ids
    /\ \A a \in DOMAIN achievements :
          SeqToSet(achievements[a].assigned_kids) \subseteq kid_ids
    /\ \A x \in DOMAIN challenges :
          SeqToSet(challenges[x].assigned_kids) \subseteq kid_ids

\* no achievement and no challenge is on a chore that does not exist
SelectedChoresValid(achievements, challenges, chore_ids) ==
    /\ \A a \in DOMAIN achievements :
          achievements[a].selected_chore_id \in chore_ids \cup {CONF_EMPTY}
    /\ \A x \in DOMAIN challenges :
          challenges[x].selected_chore_id \in chore_ids \cup {CONF_EMPTY}

\* every pending approval is of a kid that exists, for a chore or a reward
\* that exists
PendingValid(pca, pra, kid_ids, chore_ids, reward_ids) ==
    /\ \A ap \in SeqToSet(pca) : ap[1] \in kid_ids /\ ap[2] \in chore_ids
    /\ \A ap \in SeqToSet(pra) : ap[1] \in kid_ids /\ ap[2] \in reward_ids

\* C29: after a reload that removed a kid or a chore, no assignment list
\* names a removed kid, no achievement or challenge is on a removed chore,
\* and no pending approval is left of a removed kid or for a removed chore.
C29_RemovalCascades ==
    [][last'.op = "reload" /\ last'.ok
       => /\ AssignmentsValid(chores_data', achievements_data',
                              challenges_data', DOMAIN kids_data')
          /\ SelectedChoresValid(achievements_data', challenges_data',
                                 DOMAIN chores_data')
          /\ PendingValid(pending_chore_approvals',
                          pending_reward_approvals', DOMAIN kids_data',
                          DOMAIN chores_data', DOMAIN rewards_data')]_vars


(***************************************************************************)
(* Properties of the reminders (SpecRemind)                                *)
(***************************************************************************)
\* the item still awaits approval: the kid's claim of the chore, or a
\* redemption of the reward by the kid
AwaitsApproval(k, item_id) ==
    /\ k \in DOMAIN kids_data
    /\ \/ /\ item_id \in ChoreIds
          /\ item_id \in kids_data[k].claimed_chores
       \/ /\ item_id \in RewardIds
          /\ kids_data[k].pending_rewards[item_id] > 0

\* C30: the parents are sent a reminder about a chore or a reward only
\* when it still awaits approval as the timer fires: once the claim or the
\* redemption has been approved or disapproved, no reminder is sent.
C30_NoReminderOnceSettled ==
    [][\A k \in KidIds : \A item_id \in ChoreIds \cup RewardIds :
          ledger'[k].reminders[item_id] > ledger[k].reminders[item_id]
          => AwaitsApproval(k, item_id)]_vars


(***************************************************************************)
(* Properties of the notifications (SpecNotify)                            *)
(***************************************************************************)
\* C31: a notification is a task of its own.  The handler that dispatches
\* it returns with its mutation made and the task waiting (a claim leaves
\* the chore claimed, an approval approved, a disapproval neither), and the
\* task, whether it delivers or fails, and whenever it runs, changes
\* nothing of the stored data.
C31_NotificationLeavesState ==
    [][/\ last'.op = "notify"
          => UNCHANGED <<kids_data, chores_data, badges_data, rewards_data,
                         achievements_data, challenges_data,
                         pending_chore_approvals, pending_reward_approvals>>
       /\ last'.op = "claim_chore" /\ last'.ok
          => /\ last'.chore \in kids_data'[last'.kid].claimed_chores
             /\ "Chore Claimed" \in ledger'[last'.kid].tasks
       /\ last'.op = "approve_chore" /\ last'.ok
          => /\ last'.chore \in kids_data'[last'.kid].approved_chores
             /\ "Chore Approved" \in ledger'[last'.kid].tasks
       /\ last'.op = "disapprove_chore" /\ last'.ok
          => /\ last'.chore \notin kids_data'[last'.kid].claimed_chores
             /\ "Chore Disapproved" \in ledger'[last'.kid].tasks]_vars

\* the notification of a claim has failed and the chore is still claimed
\* and awaits approval
C31_Witness ==
    /\ last.op = "notify" /\ ~last.ok
    /\ "Chore Claimed" \notin ledger["k1"].tasks
    /\ "c1" \in kids_data["k1"].claimed_chores
    /\ <<"k1", "c1">> \in SeqToSet(pending_chore_approvals)

(***************************************************************************)
(* Properties of the sweeps over stored records (SpecStored)               *)
(***************************************************************************)
\* the sweep has marked the chore overdue for each of its kids who has a
\* record and has not acted on it
SweptChore(c) ==
    \A i \in 1 .. Len(chores_data[c].assigned_kids) :
        LET k == chores_data[c].assigned_kids[i]
        IN  /\ k \in DOMAIN kids_data
            /\ c \notin kids_data[k].claimed_chores
            /\ c \notin kids_data[k].approved_chores
            => c \in kids_data[k].overdue_chores

\* the chore's due date parses and has passed
PastDue(c) ==
    /\ chores_data[c].due_date \notin {None, Unparsable}
    /\ chores_data[c].due_date <= now

\* C32: an error met while a sweep processes one chore or one kid (a due
\* date that does not parse, a kid without a well-formed record) is caught
\* there: when the overdue check has run, every chore of the catalog that is
\* past due is marked overdue for its kids who have not acted.
C32_SweepReachesEveryChore ==
    last.op \in {"check_overdue_chores", "reset_all_chore_counts"}
        => \A c \in DOMAIN chores_data : PastDue(c) => SweptChore(c)

(***************************************************************************)
(* Properties of the periodic resets                                       *)
(***************************************************************************)
\* the earned counters of the kid that the midnight callback at the instant
\* t leaves as they are: the week's unless t opens the reset weekday, the
\* month's unless t opens the reset day of the month
KeptOverMidnight(k, t) ==
    /\ weekday(t) # DEFAULT_WEEKLY_RESET_DAY
          => /\ kids_data'[k].points_earned_weekly
                    = kids_data[k].points_earned_weekly
             /\ kids_data'[k].completed_chores_weekly
                    = kids_data[k].completed_chores_weekly
    /\ ~ monthly_reset_due(Ymd(DateOf(t)))
          => /\ kids_data'[k].points_earned_monthly
                    = kids_data[k].points_earned_monthly
             /\ kids_data'[k].completed_chores_monthly
                    = kids_data[k].completed_chores_monthly

\* C33: the periodic resets zero the earned counter of their period only
\* (the daily reset today's, the weekly the week's, the monthly the month's)
\* and never change a kid's points balance.
C33_ResetsKeepBalance ==
    [][last'.op = "reset_all_chore_counts"
        => \A k \in DOMAIN kids_data :
              /\ k \in DOMAIN kids_data'
              /\ kids_data'[k].points = kids_data[k].points
              /\ kids_data'[k].points_earned_today = DEFAULT_ZERO
              /\ KeptOverMidnight(k, now')]_vars

\* a midnight that opens neither a week nor a month has passed and the kid
\* keeps a balance and the points earned in the week
C33_Witness ==
    /\ last.op = "reset_all_chore_counts"
    /\ weekday(now) # DEFAULT_WEEKLY_RESET_DAY
    /\ ~ monthly_reset_due(Ymd(DateOf(now)))
    /\ \E k \in DOMAIN kids_data :
          /\ kids_data[k].points > 0
          /\ kids_data[k].points_earned_weekly > 0
          /\ kids_data[k].points_earned_today = DEFAULT_ZERO

(***************************************************************************)
(* Properties of get_next_scheduled_datetime (SpecScheduleFair)            *)
(***************************************************************************)
\* a call with require_future is in progress
FutureRequired ==
    /\ last.op = "get_next_scheduled_datetime"
    /\ last.require_future

\* the call has returned a datetime after the reference
ReturnedFuture ==
    /\ last.op = "get_next_scheduled_datetime"
    /\ last.returned
    /\ last.result > last.reference_dt

\* C34: with require_future the helper advances the schedule until the
\* result is strictly after the reference and returns it, for every interval
\* type, the period-end types included.
C34_ReturnsFutureDatetime == FutureRequired ~> ReturnedFuture

(***************************************************************************)
(* Properties of the recurrence calculator over stored chores              *)
(* (SpecStoredChore)                                                       *)
(***************************************************************************)
\* _reschedule_next_due_date enters its date-advancing loop for the chore
EntersLoop(chore_info) ==
    /\ chore_info.recurring_frequency # FREQUENCY_NONE
    /\ chore_info.due_date \notin {None, Unparsable}
    /\ chore_info.recurring_frequency = FREQUENCY_CUSTOM
          => /\ chore_info.custom_interval # None
             /\ chore_info.custom_interval_unit \in
                    {CONF_DAYS, CONF_WEEKS, CONF_MONTHS}

\* C35: _reschedule_next_due_date terminates for every stored chore
\* configuration: whatever the interval, the frequency and the applicable
\* days, its date-advancing loop exits and the command that called it
\* returns.
C35_RescheduleReturns ==
    [][/\ last'.op \in {"skip_chore_due_date", "reset_overdue_chores"}
       /\ last'.chore \in DOMAIN chores_data
       /\ EntersLoop(chores_data[last'.chore])
       => last'.ok]_vars

(***************************************************************************)
(* Properties of the pending approvals and the claimed sets                *)
(***************************************************************************)
\* the number of pending chore approvals of the kid for the chore
PendingEntries(k, c) ==
    Len(SelectSeq(pending_chore_approvals, LAMBDA ap : ap = <<k, c>>))

\* C36: for every kid and chore the pending-chore-approval queue holds
\* exactly one entry for (kid, chore) when the chore is in the kid's claimed
\* set and none otherwise.
C36_OneEntryPerClaim ==
    \A k \in DOMAIN kids_data, c \in DOMAIN chores_data :
        PendingEntries(k, c)
            = IF c \in kids_data[k].claimed_chores THEN 1 ELSE 0

(***************************************************************************)
(* Properties of the assignees of a recurring chore (SpecAssigneesFair)    *)
(***************************************************************************)
\* kid k is approved for the recurring chore c, whose due date has passed
\* or passes before the midnight that opens the day, the week and the month,
\* and that midnight is still to come
ApprovedPastDue(k, c) ==
    /\ c \in kids_data[k].approved_chores
    /\ chores_data[c].recurring_frequency # FREQUENCY_NONE
    /\ chores_data[c].due_date # None
    /\ chores_data[c].due_date < (AssigneeStartDay + 1) * TicksPerDay
    /\ now < (AssigneeStartDay + 1) * TicksPerDay

\* kid k has left the approved state for chore c: the reset has put the kid
\* back to pending (the overdue check of the same callback may at once mark
\* the chore overdue for the kid)
BackFromApproved(k, c) == c \notin kids_data[k].approved_chores

\* C37: under a fair clock every kid who is approved for a recurring chore
\* whose due date has passed is eventually returned to pending for it,
\* whatever the recurrence and whatever the other assignee has done: no
\* assignee stays approved for ever.
C37_ApprovedReturnsToPending ==
    \A k \in KidIds : ApprovedPastDue(k, "c1") ~> BackFromApproved(k, "c1")

(***************************************************************************)
(* Properties of the references after a catalog reconciliation             *)
(* (SpecCatalog)                                                           *)
(***************************************************************************)
\* every chore in the kid's claimed, approved and overdue lists exists and
\* is assigned to the kid
KidListsValid(k) ==
    \A c \in kids_data[k].claimed_chores \cup kids_data[k].approved_chores
                \cup kids_data[k].overdue_chores :
        /\ c \in DOMAIN chores_data
        /\ k \in SeqToSet(chores_data[c].assigned_kids)

\* every pending chore or reward approval names an existing kid and an
\* existing chore or reward
ApprovalsValid ==
    /\ \A i \in 1 .. Len(pending_chore_approvals) :
          /\ pending_chore_approvals[i][1] \in DOMAIN kids_data
          /\ pending_chore_approvals[i][2] \in DOMAIN chores_data
    /\ \A i \in 1 .. Len(pending_reward_approvals) :
          /\ pending_reward_approvals[i][1] \in DOMAIN kids_data
          /\ pending_reward_approvals[i][2] \in DOMAIN rewards_data

\* C38: after any catalog reconciliation there are no dangling references
\* in runtime state: the chores in a kid's claimed, approved and overdue
\* lists exist and are assigned to the kid, and every pending approval
\* names an existing kid and an existing chore or reward.
C38_NoDanglingReferences ==
    last.op = "reload"
        => /\ \A k \in DOMAIN kids_data : KidListsValid(k)
           /\ ApprovalsValid


\* how many entries the queue of pending reward approvals holds for the
\* kid and the reward
RewardEntries(k, r) == SeqCount(pending_reward_approvals, <<k, r>>)

\* C39: for every kid and every reward, the reward occurs in the kid's
\* list of pending rewards as many times as the queue of pending reward
\* approvals holds an entry for the kid and the reward
C39_PendingRewardsMatchQueue ==
    \A k \in DOMAIN kids_data : \A r \in RewardIds :
        kids_data[k].pending_rewards[r] = RewardEntries(k, r)


\* the step is a call of approve_reward for the kid k
ApprovesReward(k) ==
    /\ last'.op = "approve_reward"
    /\ last'.kid = k
    /\ k \in DOMAIN kids_data

\* C40: an approval of a reward never drives the balance below zero: a
\* call of approve_reward that succeeds leaves the kid with at least 0
\* points, and a call for a reward that costs more than the kid has is
\* rejected and leaves the balance as it was
C40_ApprovalKeepsBalance ==
    [][\A k \in KidIds : \A r \in DOMAIN rewards_data :
          ApprovesReward(k)
              => /\ last'.ok => kids_data'[k].points >= 0
                 /\ kids_data[k].points < rewards_data[r].cost
                       => /\ ~last'.ok
                          /\ kids_data'[k].points = kids_data[k].points]_vars

\* the approval of one of several pending redemptions has used up the
\* balance while another redemption of the reward is still pending
C40_Witness ==
    /\ last.op = "approve_reward"
    /\ last.ok
    /\ rewards_data["r1"].cost > 0
    /\ kids_data["k1"].points = 0
    /\ kids_data["k1"].pending_rewards["r1"] > 0

=============================================================================
